---------------------------- MODULE Spec2Model ----------------------------
(***************************************************************************)
(* Model of md2adf-converter: the ADF data model (adf/adf.go), the ADF ->  *)
(* markdown renderer (adf2md/adf2md_translator.go) and the markdown -> ADF *)
(* builder (md2adf/md2adf_translator.go).                                  *)
(*                                                                         *)
(* Strings are sequences of one-character strings.  The two replacement    *)
(* runes written by sanitize are the tokens "U276C" and "U276D", and the   *)
(* token "BT" is the backtick.                                             *)
(*                                                                         *)
(* Nine specifications share the variables: Spec (Translate calls on one   *)
(* renderer), SpecBuild (one TranslateToADF call), SpecRegistry (renders   *)
(* of one Translator, then a build that reads its registry),               *)
(* SpecRoundTrip (a text is built, the document rendered, the rendered     *)
(* text built), SpecBlocks (one TranslateToADF call on a document of one   *)
(* block), SpecSafe (renders, then one CheckSafeForV2 call), SpecReplace   *)
(* (ReplaceAll calls on one root; doc is the root, calls the record of     *)
(* the calls), SpecClassify (GetADFNodeType calls, recorded in calls) and  *)
(* SpecLayout (Translate calls on documents of tables and nested lists).   *)
(***************************************************************************)
EXTENDS Integers, Sequences, FiniteSets, TLC

VARIABLES
    mediaMapping,       \* Translator.mediaMapping: media id -> node
    inlineCardMapping,  \* Translator.inlineCardMapping: url -> node
    tr,                 \* the MarkdownTranslator: table and list state
    buf,                \* Translator.buf of the running Translate call
    stack,              \* the visit recursion: frames [node, idx, depth]
    status,             \* "idle" | "running" | "panicked"
    doc,                \* Translator.doc of the running / last call
    calls,              \* completed calls: <<[doc, out]>> for Translate
    built,              \* completed builder calls: <<[input, doc]>>
    userMapping         \* md2adf Translator.userMapping: email -> user id

vars == <<mediaMapping, inlineCardMapping, tr, buf, stack, status, doc,
          calls, built, userMapping>>

-----------------------------------------------------------------------------
(* Bounds of the model.                                                    *)

\* the greatest number of top-level nodes of a rendered document
MaxBlocks == 2
\* the greatest number of Translate calls on one renderer
MaxCalls == 2
\* the greatest number of inline pieces of a paragraph handed to the builder
MaxInline == 2
\* the greatest number of columns and of data rows of a table that is built,
\* rendered and built again
MaxTableCols == 2
MaxTableRows == 2
\* the greatest number of items of a list handed to the builder
MaxItems == 2

\* the greatest number of lists nested in one another in a rendered tree
MaxDepth == 2

-----------------------------------------------------------------------------
(* String helpers (package strings, fmt).                                  *)

Empty == << >>

Max(a, b) == IF a > b THEN a ELSE b

RECURSIVE Flatten(_)
\* concatenation of a sequence of strings
Flatten(ss) == IF ss = << >> THEN << >> ELSE Head(ss) \o Flatten(Tail(ss))

RECURSIVE Repeat(_, _)
\* strings.Repeat
Repeat(s, n) == IF n <= 0 THEN << >> ELSE s \o Repeat(s, n - 1)

HasPrefix(s, p) == Len(s) >= Len(p) /\ SubSeq(s, 1, Len(p)) = p

HasSuffix(s, p) == Len(s) >= Len(p) /\ SubSeq(s, Len(s) - Len(p) + 1, Len(s)) = p

\* strings.Contains
Contains(s, sub) ==
    \E i \in 0..(Len(s) - Len(sub)) : SubSeq(s, i + 1, i + Len(sub)) = sub

\* the characters unicode.IsSpace accepts, among those the model uses
IsSpace(c) == c \in {" ", "\n", "\t"}

RECURSIVE TrimLeftSpace(_)
TrimLeftSpace(s) ==
    IF s # << >> /\ IsSpace(Head(s)) THEN TrimLeftSpace(Tail(s)) ELSE s

RECURSIVE TrimRightSpace(_)
TrimRightSpace(s) ==
    IF s # << >> /\ IsSpace(s[Len(s)])
    THEN TrimRightSpace(SubSeq(s, 1, Len(s) - 1)) ELSE s

\* strings.TrimSpace
TrimSpace(s) == TrimRightSpace(TrimLeftSpace(s))

RECURSIVE TrimRightChar(_, _)
\* strings.TrimRight(s, c) for a one-character cutset
TrimRightChar(s, c) ==
    IF s # << >> /\ s[Len(s)] = c
    THEN TrimRightChar(SubSeq(s, 1, Len(s) - 1), c) ELSE s

RECURSIVE TrimLeftChar(_, _)
TrimLeftChar(s, c) ==
    IF s # << >> /\ Head(s) = c THEN TrimLeftChar(Tail(s), c) ELSE s

\* strings.Trim(s, c) for a one-character cutset
TrimChar(s, c) == TrimRightChar(TrimLeftChar(s, c), c)

\* strings.Index(s, c) for a one-character c, 0-based; -1 when absent
IndexOf(s, c) ==
    IF \E i \in 1..Len(s) : s[i] = c
    THEN (CHOOSE i \in 1..Len(s) : s[i] = c /\ \A j \in 1..(i - 1) : s[j] # c) - 1
    ELSE -1

\* s[from:to] of Go, 0-based and half open
Slice(s, from, to) == SubSeq(s, from + 1, to)

\* strings.ReplaceAll(s, c, by) for a one-character c
ReplaceChar(s, c, by) ==
    Flatten([i \in 1..Len(s) |-> IF s[i] = c THEN by ELSE <<s[i]>>])

Digit(d) == <<"0", "1", "2", "3", "4", "5", "6", "7", "8", "9">>[d + 1]

RECURSIVE Itoa(_)
\* fmt's %d of a non-negative int
Itoa(n) == IF n < 10 THEN <<Digit(n)>> ELSE Itoa(n \div 10) \o <<Digit(n % 10)>>

\* the number of bytes of a character in UTF-8 (len counts bytes)
ByteLen(c) == IF c \in {"U276C", "U276D"} THEN 3 ELSE 1

RECURSIVE GoLen(_)
\* len(s) of a Go string: its bytes
GoLen(s) == IF s = << >> THEN 0 ELSE ByteLen(Head(s)) + GoLen(Tail(s))

\* the permutations of a finite set, as sequences: the orders in which Go may
\* range over a map with these keys
Perms(S) ==
    {p \in [1..Cardinality(S) -> S] : \A i, j \in 1..Cardinality(S) : p[i] = p[j] => i = j}

-----------------------------------------------------------------------------
(* The ADF data model (adf/adf.go).                                        *)
(*                                                                         *)
(* A node is [type, content, text, marks, attrs, ref]; a mark is           *)
(* [type, attrs].  attrs is a function from keys to values, the empty      *)
(* function for a nil or empty map (ranging over a nil map and asserting   *)
(* its type behave as for an empty one).  A value [t, n, s] carries its    *)
(* dynamic Go type t, with n the number or s the string.  ref is the       *)
(* node's identity (its address): 0 for a node the builder allocates, a    *)
(* positive number for a node of a tree handed to the renderer.            *)

NoAttrs == << >>

StrV(s) == [t |-> "string", n |-> 0, s |-> s]
IntV(n) == [t |-> "int", n |-> n, s |-> << >>]
FloatV(n) == [t |-> "float64", n |-> n, s |-> << >>]
BoolV(b) == [t |-> "bool", n |-> IF b THEN 1 ELSE 0, s |-> << >>]

Attr1(k, v) == [x \in {k} |-> v]
Attr2(k1, v1, k2, v2) == [x \in {k1, k2} |-> IF x = k1 THEN v1 ELSE v2]

HasKey(attrs, k) == k \in DOMAIN attrs

Node(type, content, text, marks, attrs) ==
    [type |-> type, content |-> content, text |-> text, marks |-> marks,
     attrs |-> attrs, ref |-> 0]

Mark(type, attrs) == [type |-> type, attrs |-> attrs]

ParentNodes ==
    {"blockquote", "bulletList", "codeBlock", "heading", "orderedList",
     "panel", "paragraph", "table", "media"}

ChildNodes == {"text", "listItem", "tableRow", "tableHeader", "tableCell"}

IsParentNode(identifier) == identifier \in ParentNodes

IsChildNode(identifier) == identifier \in ChildNodes

GetADFNodeType(identifier) ==
    IF IsParentNode(identifier) THEN "parent"
    ELSE IF IsChildNode(identifier) THEN "child"
    ELSE "unknown"

RECURSIVE ReplaceAllString(_, _, _)
\* strings.ReplaceAll: the occurrences of old from left to right, none
\* overlapping another; an empty old matches before every character and at
\* the end
ReplaceAllString(s, old, new) ==
    IF old = << >> THEN new \o Flatten([i \in 1..Len(s) |-> <<s[i]>> \o new])
    ELSE IF Len(s) < Len(old) THEN s
    ELSE IF HasPrefix(s, old)
    THEN new \o ReplaceAllString(SubSeq(s, Len(old) + 1, Len(s)), old, new)
    ELSE <<Head(s)>> \o ReplaceAllString(Tail(s), old, new)

\* replace without the descent into the children
replaceNodeOnly(n, old, new) ==
    [n EXCEPT !.text = IF n.type = "text" THEN ReplaceAllString(@, old, new) ELSE @]

RECURSIVE replace(_, _, _)
\* a.replace(n, old, new): the node after it
replace(n, old, new) ==
    [n EXCEPT !.content = [i \in 1..Len(n.content) |-> replace(n.content[i], old, new)],
              !.text = IF n.type = "text" THEN ReplaceAllString(@, old, new) ELSE @]

\* a.ReplaceAll(old, new): the root after it
ReplaceAll(a, old, new) ==
    IF Len(a.content) = 0 THEN a
    ELSE [a EXCEPT !.content = [i \in 1..Len(a.content) |-> replace(a.content[i], old, new)]]

NewADFDocument == [version |-> 1, type |-> "doc", content |-> << >>]

NewParagraphNode == Node("paragraph", << >>, << >>, << >>, NoAttrs)

NewTextNode(text) == Node("text", << >>, text, << >>, NoAttrs)

NewTextNodeWithMarks(text, marks) == Node("text", << >>, text, marks, NoAttrs)

NewHeadingNode(level) ==
    Node("heading", << >>, << >>, << >>, Attr1("level", IntV(level)))

NewLinkMark(href) == Mark("link", Attr1("href", StrV(href)))

NewCodeMark == Mark("code", NoAttrs)
NewStrongMark == Mark("strong", NoAttrs)
NewUnderlineMark == Mark("underline", NoAttrs)
NewStrikethroughMark == Mark("strike", NoAttrs)
NewEmphasisMark == Mark("em", NoAttrs)

NewMentionNode(userID, displayText) ==
    Node("mention", << >>, << >>, << >>,
         Attr2("id", StrV(userID), "text", StrV(displayText)))

NewCodeBlockNode(language) ==
    Node("codeBlock", << >>, << >>, << >>,
         IF language # << >> THEN Attr1("language", StrV(language)) ELSE NoAttrs)

NewBulletListNode == Node("bulletList", << >>, << >>, << >>, NoAttrs)

\* NewOrderedListNode with the order always among the attributes
NewOrderedListNodeWithOrder(order) ==
    Node("orderedList", << >>, << >>, << >>, Attr1("order", IntV(order)))

NewOrderedListNode(order) ==
    Node("orderedList", << >>, << >>, << >>,
         IF order > 1 THEN Attr1("order", IntV(order)) ELSE NoAttrs)

NewListItemNode == Node("listItem", << >>, << >>, << >>, NoAttrs)

NewPanelNode(panelType) ==
    Node("panel", << >>, << >>, << >>, Attr1("panelType", StrV(panelType)))

\* The table constructors are called by the builder but are not among the
\* sources; they follow section 4.1 of the specification.
NewTableNode ==
    Node("table", << >>, << >>, << >>,
         Attr2("isNumberColumnEnabled", BoolV(FALSE), "layout", StrV(<<"a","l","i","g","n","-","s","t","a","r","t">>)))

NewTableRowNode == Node("tableRow", << >>, << >>, << >>, NoAttrs)
NewTableHeaderNode == Node("tableHeader", << >>, << >>, << >>, NoAttrs)
NewTableCellNode == Node("tableCell", << >>, << >>, << >>, NoAttrs)

\* append(n.Content, c)
AppendChild(n, c) == [n EXCEPT !.content = Append(@, c)]

-----------------------------------------------------------------------------
(* The renderer's tag rules (adf2md: MarkdownTranslator).                  *)
(*                                                                         *)
(* tr is the MarkdownTranslator: the table fields, the list fields (ol and *)
(* ul as the sets of depths mapped to true, counter as a function on the   *)
(* depths already counted), hooks ("none" or "jira": the open and close    *)
(* hooks NewJiraMarkdownTranslator installs) and resolver (the email       *)
(* resolver: a function from user ids to emails; the empty function stands *)
(* for no resolver, both giving "" for every id it does not know).         *)

NewMarkdownTranslator(hooks, resolver) ==
    [rows |-> 0, cols |-> 0, ccol |-> 0, sep |-> FALSE, content |-> << >>,
     widths |-> << >>, inTable |-> FALSE, inTableCell |-> FALSE,
     ol |-> {}, ul |-> {}, depthO |-> 0, depthU |-> 0, counter |-> << >>,
     hooks |-> hooks, resolver |-> resolver]

\* tr.list.counter[d], 0 for a missing key
Counter(t, d) == IF d \in DOMAIN t.counter THEN t.counter[d] ELSE 0

\* m[d] = v on a map held as a function
MapSet(m, k, v) == [x \in DOMAIN m \cup {k} |-> IF x = k THEN v ELSE m[x]]

\* fmt.Sprintf("%s", v)
FmtS(v) == IF v.t = "string" THEN v.s ELSE <<"%!s">>

IsValidAttr(attr) == attr \in {"language", "level", "text"}

RECURSIVE AttrsLoop(_, _, _, _)
\* the loop of setOpenTagAttributes over the keys in the order Go ranges them
AttrsLoop(attrs, order, tag, nl) ==
    IF order = << >> THEN [out |-> tag, panic |-> FALSE]
    ELSE LET k == Head(order)
             v == attrs[k]
         IN  IF IsValidAttr(k) /\ k = "level" /\ v.t # "float64"
             THEN [out |-> tag, panic |-> TRUE]    \* v.(float64) fails
             ELSE LET t1 == IF ~IsValidAttr(k) THEN tag
                            ELSE IF k = "language" THEN tag \o FmtS(v)
                            ELSE IF k = "level" THEN tag \o Repeat(<<"#">>, v.n) \o <<" ">>
                            ELSE tag \o FmtS(v)
                      nl1 == IF ~IsValidAttr(k) THEN nl
                             ELSE IF k = "language" THEN TRUE
                             ELSE IF k = "text" THEN FALSE
                             ELSE nl
                      t2 == IF nl1 THEN t1 \o <<"\n">> ELSE t1
                  IN  AttrsLoop(attrs, Tail(order), t2, nl1)

setOpenTagAttributes(attrs, order) == AttrsLoop(attrs, order, << >>, FALSE)

\* the email of a user id; "" without a resolver or for an unknown id
resolveUserEmail(t, userID) ==
    IF userID \in DOMAIN t.resolver THEN t.resolver[userID] ELSE << >>

setOpenTagAttributesForMention(t, attrs) ==
    IF HasKey(attrs, "id") /\ attrs["id"].t # "string"
    THEN [out |-> << >>, panic |-> TRUE]           \* userID.(string) fails
    ELSE IF HasKey(attrs, "id") /\ resolveUserEmail(t, attrs["id"].s) # << >>
    THEN [out |-> resolveUserEmail(t, attrs["id"].s), panic |-> FALSE]
    ELSE IF HasKey(attrs, "text")
    THEN IF attrs["text"].t # "string"
         THEN [out |-> << >>, panic |-> TRUE]      \* text.(string) fails
         ELSE [out |-> IF HasPrefix(attrs["text"].s, <<"@">>)
                       THEN Tail(attrs["text"].s) ELSE attrs["text"].s,
               panic |-> FALSE]
    ELSE [out |-> << >>, panic |-> FALSE]

setCloseTagAttributes(attrs) ==
    IF HasKey(attrs, "href")
    THEN <<"(">> \o FmtS(attrs["href"]) \o <<")", " ">>
    ELSE << >>

\* MediaAttributes.ID after the JSON round trip of the attributes
extractMediaID(attrs) ==
    IF HasKey(attrs, "id") /\ attrs["id"].t = "string" THEN attrs["id"].s ELSE << >>

\* InlineCardAttributes.URL after the JSON round trip of the attributes
extractCardURL(attrs) ==
    IF HasKey(attrs, "url") /\ attrs["url"].t = "string" THEN attrs["url"].s ELSE << >>

RECURSIVE PanelLoop(_, _, _)
PanelLoop(attrs, order, tag) ==
    IF order = << >> THEN [out |-> tag, panic |-> FALSE]
    ELSE LET k == Head(order)
             v == attrs[k]
         IN  IF k = "panelType"
             THEN IF v.t # "string" THEN [out |-> tag, panic |-> TRUE]
                  ELSE PanelLoop(attrs, Tail(order),
                                 tag \o <<"t","y","p","e","=">> \o v.s)
             ELSE PanelLoop(attrs, Tail(order),
                            tag \o <<"|", k, "=">> \o FmtS(v))

nodePanelOpenHook(attrs, order) ==
    LET r == PanelLoop(attrs, order,
                       <<"\n", "{", "p","a","n","e","l">>
                       \o (IF DOMAIN attrs # {} THEN <<":">> ELSE << >>))
    IN  [out |-> r.out \o <<"}", "\n">>, panic |-> r.panic]

nodePanelCloseHook == <<"{", "/", "p","a","n","e","l", "}", "\n">>

\* fmt.Sprintf(" %-*s ", width, cell): left aligned, padded to width runes
PadCell(cell, width) ==
    <<" ">> \o cell \o Repeat(<<" ">>, width - Len(cell)) \o <<" ">>

RECURSIVE ColMax(_, _)
\* the greatest len(cell) in column j (1-based) over the rows, 0 if none
ColMax(content, j) ==
    IF content = << >> THEN 0
    ELSE LET row == Head(content)
             rest == ColMax(Tail(content), j)
         IN  IF j <= Len(row) THEN Max(GoLen(row[j]), rest) ELSE rest

RECURSIVE MaxCols(_)
MaxCols(content) ==
    IF content = << >> THEN 0 ELSE Max(Len(Head(content)), MaxCols(Tail(content)))

\* tr.table.widths after calculateColumnWidths
calculateColumnWidths(content) ==
    [j \in 1..MaxCols(content) |-> Max(5, ColMax(content, j))]

RenderRow(row, widths) ==
    <<"|">> \o Flatten([j \in 1..Len(row) |-> PadCell(row[j], widths[j]) \o <<"|">>])
    \o <<"\n">>

\* a separator whose segments have as many dashes as the column is wide
RenderSeparatorOfWidth(row, widths) ==
    <<"|">> \o Flatten([j \in 1..Len(row) |-> Repeat(<<"-">>, widths[j]) \o <<"|">>])
    \o <<"\n">>

RenderSeparator(row, widths) ==
    <<"|">> \o Flatten([j \in 1..Len(row) |-> Repeat(<<"-">>, widths[j] + 2) \o <<"|">>])
    \o <<"\n">>

renderTable(content) ==
    IF content = << >> THEN << >>
    ELSE LET widths == calculateColumnWidths(content)
         IN  Flatten([i \in 1..Len(content) |->
                        RenderRow(content[i], widths)
                        \o (IF i = 1 THEN RenderSeparator(content[i], widths) ELSE << >>)])

\* the column (0-based) addCellContent writes to
CurrentCol(t) == IF t.ccol > 0 THEN t.ccol - 1 ELSE t.cols - 1

\* addCellContent: the translator after it, or a panic (index out of range)
addCellContent(t, s) ==
    IF t.rows = 0 \/ Len(t.content) < t.rows THEN [tr |-> t, panic |-> FALSE]
    ELSE IF CurrentCol(t) < 0 THEN [tr |-> t, panic |-> TRUE]
    ELSE LET row == t.content[t.rows]
             col == CurrentCol(t) + 1
             grown == [j \in 1..Max(Len(row), col) |->
                         IF j <= Len(row) THEN row[j] ELSE << >>]
         IN  [tr |-> [t EXCEPT !.content[t.rows] = [grown EXCEPT ![col] = @ \o s]],
              panic |-> FALSE]

isInTableCell(t) == t.inTableCell

\* what Open writes for the node or mark type, before the attributes
OpenTag(t, nt, attrs) ==
    CASE nt = "blockquote" -> <<">", " ">>
      [] nt = "codeBlock" ->
            <<"BT", "BT", "BT">> \o (IF HasKey(attrs, "language") THEN << >> ELSE <<"\n">>)
      [] nt = "panel" -> <<"-", "-", "-", "\n">>
      [] nt = "table" -> <<"\n">>
      [] nt = "media" ->
            IF extractMediaID(attrs) # << >>
            THEN <<"\n", "{", "a","t","t","a","c","h","m","e","n","t", ":">>
                 \o extractMediaID(attrs) \o <<"}">>
            ELSE <<"\n", "[", "a","t","t","a","c","h","m","e","n","t", "]">>
      [] nt = "listItem" ->
            IF t.depthO \in t.ol
            THEN Repeat(<<" ", " ", " ", " ">>, t.depthO - 1)
                 \o Itoa(Counter(t, t.depthO) + 1) \o <<".", " ">>
            ELSE Repeat(<<" ", " ", " ", " ">>, t.depthU - 1) \o <<"-", " ">>
      [] nt = "hardBreak" -> <<"\n", "\n">>
      [] nt = "inlineCard" ->
            IF extractCardURL(attrs) # << >>
            THEN <<"[", "l","i","n","k", "]", "(">> \o extractCardURL(attrs) \o <<")">>
            ELSE <<" ", "U1F4CD", " ">>
      [] nt = "underline" -> <<"<", "u", ">">>
      [] nt = "strong" -> <<"*", "*">>
      [] nt = "em" -> <<"_">>
      [] nt = "code" -> <<"BT">>
      [] nt = "strike" -> <<"-">>
      [] nt = "link" -> <<"[">>
      [] OTHER -> << >>

\* the translator after Open's switch for the node type
OpenState(t, nt) ==
    CASE nt = "table" -> [t EXCEPT !.inTable = TRUE]
      [] nt = "bulletList" ->
            [t EXCEPT !.depthU = @ + 1, !.ul = @ \cup {t.depthU + 1}]
      [] nt = "orderedList" ->
            [t EXCEPT !.depthO = @ + 1, !.ol = @ \cup {t.depthO + 1}]
      [] nt = "listItem" ->
            IF t.depthO \in t.ol
            THEN [t EXCEPT !.counter = MapSet(@, t.depthO, Counter(t, t.depthO) + 1)]
            ELSE t
      [] nt = "tableHeader" -> [t EXCEPT !.cols = @ + 1, !.inTableCell = TRUE]
      [] nt = "tableCell" -> [t EXCEPT !.ccol = @ + 1, !.inTableCell = TRUE]
      [] nt = "tableRow" ->
            [t EXCEPT !.rows = @ + 1,
                      !.sep = IF t.rows + 1 = 1 /\ ~t.sep THEN TRUE ELSE @,
                      !.content = IF Len(@) < t.rows + 1 THEN Append(@, << >>) ELSE @,
                      !.ccol = 0]
      [] OTHER -> t

\* MarkdownTranslator.Open for a node or mark of type nt with attributes
\* attrs; o1 and o2 are the orders in which the hook and
\* setOpenTagAttributes range over the attribute map
Open(t, nt, attrs, o1, o2) ==
    IF t.hooks = "jira" /\ nt = "panel"
    THEN LET h == nodePanelOpenHook(attrs, o1)
             a == setOpenTagAttributes(attrs, o2)
         IN  [tr |-> t, out |-> h.out \o a.out, panic |-> h.panic \/ a.panic]
    ELSE IF nt = "mention"
    THEN LET m == setOpenTagAttributesForMention(t, attrs)
         IN  [tr |-> t, out |-> <<" ", "@">> \o m.out, panic |-> m.panic]
    ELSE LET a == setOpenTagAttributes(attrs, o2)
         IN  [tr |-> OpenState(t, nt), out |-> OpenTag(t, nt, attrs) \o a.out,
              panic |-> a.panic]

\* Close with a paragraph closed as if no list were open
CloseTagIgnoringLists(t, nt) ==
    CASE nt = "blockquote" -> <<"\n">>
      [] nt = "codeBlock" -> <<"\n", "BT", "BT", "BT", "\n">>
      [] nt = "panel" -> <<"-", "-", "-", "\n">>
      [] nt = "heading" -> <<"\n">>
      [] nt = "paragraph" -> IF t.rows = 0 THEN <<"\n", "\n">> ELSE << >>
      [] nt = "table" -> renderTable(t.content)
      [] nt = "mention" -> <<" ">>
      [] nt = "emoji" -> <<" ">>
      [] nt = "underline" -> <<"<", "/", "u", ">">>
      [] nt = "strong" -> <<"*", "*">>
      [] nt = "em" -> <<"_">>
      [] nt = "code" -> <<"BT">>
      [] nt = "strike" -> <<"-">>
      [] nt = "link" -> <<"]">>
      [] OTHER -> << >>

\* what Close writes for the node or mark type, before the attributes
CloseTag(t, nt) ==
    CASE nt = "blockquote" -> <<"\n">>
      [] nt = "codeBlock" -> <<"\n", "BT", "BT", "BT", "\n">>
      [] nt = "panel" -> <<"-", "-", "-", "\n">>
      [] nt = "heading" -> <<"\n">>
      [] nt = "paragraph" ->
            IF t.depthU \in t.ul \/ t.depthO \in t.ol THEN <<"\n">>
            ELSE IF t.rows = 0 THEN <<"\n", "\n">>
            ELSE << >>
      [] nt = "table" -> renderTable(t.content)
      [] nt = "mention" -> <<" ">>
      [] nt = "emoji" -> <<" ">>
      [] nt = "underline" -> <<"<", "/", "u", ">">>
      [] nt = "strong" -> <<"*", "*">>
      [] nt = "em" -> <<"_">>
      [] nt = "code" -> <<"BT">>
      [] nt = "strike" -> <<"-">>
      [] nt = "link" -> <<"]">>
      [] OTHER -> << >>

\* Close's switch with the ordered list's case left out
CloseStateOfBullets(t, nt) ==
    CASE nt = "bulletList" -> [t EXCEPT !.ul = @ \ {t.depthU}, !.depthU = @ - 1]
      [] nt = "table" ->
            [t EXCEPT !.rows = 0, !.cols = 0, !.sep = FALSE, !.content = << >>,
                      !.widths = << >>, !.inTable = FALSE, !.inTableCell = FALSE]
      [] nt = "tableHeader" -> [t EXCEPT !.inTableCell = FALSE]
      [] nt = "tableCell" -> [t EXCEPT !.inTableCell = FALSE]
      [] OTHER -> t

\* the translator after Close's switch for the node type
CloseState(t, nt) ==
    CASE nt = "bulletList" -> [t EXCEPT !.ul = @ \ {t.depthU}, !.depthU = @ - 1]
      [] nt = "orderedList" -> [t EXCEPT !.ol = @ \ {t.depthO}, !.depthO = @ - 1]
      [] nt = "table" ->
            [t EXCEPT !.rows = 0, !.cols = 0, !.sep = FALSE, !.content = << >>,
                      !.widths = << >>, !.inTable = FALSE, !.inTableCell = FALSE]
      [] nt = "tableHeader" -> [t EXCEPT !.inTableCell = FALSE]
      [] nt = "tableCell" -> [t EXCEPT !.inTableCell = FALSE]
      [] OTHER -> t

\* MarkdownTranslator.Close
Close(t, nt, attrs) ==
    IF t.hooks = "jira" /\ nt = "panel"
    THEN [tr |-> t, out |-> nodePanelCloseHook \o setCloseTagAttributes(attrs)]
    ELSE [tr |-> CloseState(t, nt),
          out |-> CloseTag(t, nt) \o setCloseTagAttributes(attrs)]

\* sanitize
sanitize(s) ==
    ReplaceChar(ReplaceChar(TrimRightChar(s, "\n"), "<", <<"U276C">>), ">", <<"U276D">>)

-----------------------------------------------------------------------------
(* The traversal (adf2md: Translator.Translate, walk, visit).              *)

\* the orders in which Go may range over the attribute maps of the marks
MarkOrders(marks) ==
    {f \in [1..Len(marks) -> UNION {Perms(DOMAIN marks[i].attrs) : i \in 1..Len(marks)}] :
        \A i \in 1..Len(marks) : f[i] \in Perms(DOMAIN marks[i].attrs)}

RECURSIVE OpenMarks(_, _, _, _)
\* a.tsl.Open(m, depth) for the marks from index i on: the translator after
\* them and the strings they returned
OpenMarks(t, marks, ords, i) ==
    IF i > Len(marks) THEN [tr |-> t, outs |-> << >>, panic |-> FALSE]
    ELSE LET o == Open(t, marks[i].type, marks[i].attrs, ords[i], ords[i])
         IN  IF o.panic THEN [tr |-> o.tr, outs |-> << >>, panic |-> TRUE]
             ELSE LET r == OpenMarks(o.tr, marks, ords, i + 1)
                  IN  [tr |-> r.tr, outs |-> <<o.out>> \o r.outs, panic |-> r.panic]

RECURSIVE CloseMarksFrom(_, _, _)
\* the marks from index i on, closed in the order they were opened
CloseMarksFrom(t, marks, i) ==
    IF i > Len(marks) THEN [tr |-> t, outs |-> << >>]
    ELSE LET c == Close(t, marks[i].type, marks[i].attrs)
             r == CloseMarksFrom(c.tr, marks, i + 1)
         IN  [tr |-> r.tr, outs |-> <<c.out>> \o r.outs]

\* a visit that closes the marks first to last instead of last to first
CloseMarksInOpeningOrder(t, marks, i) == CloseMarksFrom(t, marks, 1)

RECURSIVE CloseMarks(_, _, _)
\* a.tsl.Close(m) for the marks from index i down to the first
CloseMarks(t, marks, i) ==
    IF i < 1 THEN [tr |-> t, outs |-> << >>]
    ELSE LET c == Close(t, marks[i].type, marks[i].attrs)
             r == CloseMarks(c.tr, marks, i - 1)
         IN  [tr |-> r.tr, outs |-> <<c.out>> \o r.outs]

\* the marks visit opens for a node: those of a text node only
Opened(n) == IF n.type = "text" THEN n.marks ELSE << >>

\* the tail of visit for a child-classified node outside a table cell: what
\* is written to the buffer before the node's close tag
ChildTail(t, n, ords) ==
    LET o == OpenMarks(t, Opened(n), ords, 1)
        c == CloseMarks(o.tr, Opened(n), Len(Opened(n)))
    IN  IF o.panic THEN [tr |-> o.tr, out |-> << >>, panic |-> TRUE]
        ELSE [tr |-> c.tr,
              out |-> Flatten(o.outs) \o sanitize(n.text) \o Flatten(c.outs),
              panic |-> FALSE]

RECURSIVE CellOpenMarks(_, _, _, _)
\* addCellContent(a.tsl.Open(m, depth)) for the marks from index i on
CellOpenMarks(t, marks, ords, i) ==
    IF i > Len(marks) THEN [tr |-> t, panic |-> FALSE]
    ELSE LET o == Open(t, marks[i].type, marks[i].attrs, ords[i], ords[i])
             a == addCellContent(o.tr, o.out)
         IN  IF o.panic \/ a.panic THEN [tr |-> a.tr, panic |-> TRUE]
             ELSE CellOpenMarks(a.tr, marks, ords, i + 1)

RECURSIVE CellCloseMarks(_, _, _)
\* addCellContent(a.tsl.Close(m)) for the marks from index i down to the first
CellCloseMarks(t, marks, i) ==
    IF i < 1 THEN [tr |-> t, panic |-> FALSE]
    ELSE LET c == Close(t, marks[i].type, marks[i].attrs)
             a == addCellContent(c.tr, c.out)
         IN  IF a.panic THEN [tr |-> a.tr, panic |-> TRUE]
             ELSE CellCloseMarks(a.tr, marks, i - 1)

\* the tail of visit for a child-classified node inside a table cell: the
\* marks are opened once for the tag that is then dropped and once more for
\* the cell, and visit returns without closing the node
CellTail(t, n, ords1, ords2) ==
    LET o1 == OpenMarks(t, Opened(n), ords1, 1)
        o2 == CellOpenMarks(o1.tr, Opened(n), ords2, 1)
        a  == addCellContent(o2.tr, sanitize(n.text))
        c  == CellCloseMarks(a.tr, Opened(n), Len(Opened(n)))
    IN  IF o1.panic \/ o2.panic \/ a.panic THEN [tr |-> t, panic |-> TRUE]
        ELSE c

\* a visit that records the media child instead of its group
RegisterMediaChild(m, n) ==
    IF n.type \in {"mediaGroup", "mediaSingle"} /\ n.content # << >>
       /\ extractMediaID(n.content[1].attrs) # << >>
    THEN MapSet(m, extractMediaID(n.content[1].attrs), n.content[1])
    ELSE m

\* a visit that starts the URL map anew with every card it records
RegisterCardAlone(m, n) ==
    IF n.type = "inlineCard" /\ extractCardURL(n.attrs) # << >>
    THEN [x \in {extractCardURL(n.attrs)} |-> n]
    ELSE m

\* the registry entries visit records for a node on entering it
RegisterMedia(m, n) ==
    IF n.type \in {"mediaGroup", "mediaSingle"} /\ n.content # << >>
       /\ extractMediaID(n.content[1].attrs) # << >>
    THEN MapSet(m, extractMediaID(n.content[1].attrs), n)
    ELSE m

RegisterCard(m, n) ==
    IF n.type = "inlineCard" /\ extractCardURL(n.attrs) # << >>
    THEN MapSet(m, extractCardURL(n.attrs), n)
    ELSE m

\* n.Content[0] of a media group without children: index out of range
MediaPanics(n) == n.type \in {"mediaGroup", "mediaSingle"} /\ n.content = << >>

\* a frame of the visit recursion: the node and how many children are done
Frame(n) == [node |-> n, idx |-> 0]

Top == stack[Len(stack)]

\* the stack with the top frame popped
Popped == SubSeq(stack, 1, Len(stack) - 1)

\* the child the top frame visits next
NextChild == Top.node.content[Top.idx + 1]

\* the stack after visit(child) starts: the parent moves on, the child is pushed
Pushed(c) ==
    Append([stack EXCEPT ![Len(stack)].idx = @ + 1], Frame(c))

\* Translate: a.doc = doc, a fresh buffer, and walk starts
TranslateStart(d) ==
    /\ status = "idle"
    /\ doc' = d
    /\ buf' = << >>
    /\ stack' = <<Frame(d)>>
    /\ status' = "running"
    /\ UNCHANGED <<mediaMapping, inlineCardMapping, tr, calls, built, userMapping>>

\* visit(n), up to the loop over the children: the registry, then Open
VisitOpen ==
    /\ status = "running"
    /\ Top.idx < Len(Top.node.content)
    /\ LET n == NextChild
       IN  IF MediaPanics(n)
           THEN /\ status' = "panicked"
                /\ UNCHANGED <<mediaMapping, inlineCardMapping, tr, buf, stack>>
           ELSE \E o1, o2 \in Perms(DOMAIN n.attrs) :
                  LET o == Open(tr, n.type, n.attrs, o1, o2)
                  IN  /\ mediaMapping' = RegisterMedia(mediaMapping, n)
                      /\ inlineCardMapping' = RegisterCard(inlineCardMapping, n)
                      /\ tr' = o.tr
                      /\ IF o.panic
                         THEN status' = "panicked" /\ UNCHANGED <<buf, stack>>
                         ELSE /\ buf' = buf \o o.out
                              /\ stack' = Pushed(n)
                              /\ UNCHANGED status
    /\ UNCHANGED <<doc, calls, built, userMapping>>

\* visit(n), after the loop over the children: the marks and the text of a
\* child-classified node (into the cell buffer when inside a table cell,
\* visit then returning early), then Close
VisitClose ==
    /\ status = "running"
    /\ Len(stack) > 1
    /\ Top.idx = Len(Top.node.content)
    /\ LET n == Top.node
       IN  IF GetADFNodeType(n.type) = "child" /\ isInTableCell(tr)
           THEN \E ords1, ords2 \in MarkOrders(Opened(n)) :
                  LET c == CellTail(tr, n, ords1, ords2)
                  IN  /\ tr' = c.tr
                      /\ buf' = buf
                      /\ IF c.panic
                         THEN status' = "panicked" /\ UNCHANGED stack
                         ELSE stack' = Popped /\ UNCHANGED status
           ELSE IF GetADFNodeType(n.type) = "child"
           THEN \E ords \in MarkOrders(Opened(n)) :
                  LET c == ChildTail(tr, n, ords)
                      z == Close(c.tr, n.type, n.attrs)
                  IN  IF c.panic
                      THEN /\ status' = "panicked"
                           /\ tr' = c.tr
                           /\ UNCHANGED <<buf, stack>>
                      ELSE /\ tr' = z.tr
                           /\ buf' = buf \o c.out \o z.out
                           /\ stack' = Popped
                           /\ UNCHANGED status
           ELSE LET z == Close(tr, n.type, n.attrs)
                IN  /\ tr' = z.tr
                    /\ buf' = buf \o z.out
                    /\ stack' = Popped
                    /\ UNCHANGED status
    /\ UNCHANGED <<mediaMapping, inlineCardMapping, doc, calls, built, userMapping>>

\* walk is done and Translate returns a.buf.String()
TranslateReturn ==
    /\ status = "running"
    /\ Len(stack) = 1
    /\ Top.idx = Len(Top.node.content)
    /\ status' = "idle"
    /\ stack' = << >>
    /\ calls' = Append(calls, [doc |-> doc, out |-> buf])
    /\ UNCHANGED <<mediaMapping, inlineCardMapping, tr, buf, doc, built, userMapping>>

-----------------------------------------------------------------------------
(* The trees handed to the renderer.                                       *)

WithContent(n, content) == [n EXCEPT !.content = content]

Para(content) == WithContent(NewParagraphNode, content)
Item(content) == WithContent(NewListItemNode, content)
Row(content) == WithContent(NewTableRowNode, content)
TH(content) == WithContent(NewTableHeaderNode, content)
TD(content) == WithContent(NewTableCellNode, content)

UrlA == <<"u", "1">>
UrlB == <<"u", "2">>
MediaA == <<"m", "1">>
MediaB == <<"m", "2">>
UserA == <<"i", "d", "1">>
MailA == <<"a", "@", "d">>

\* inline nodes of every kind, text with and without marks
InlineBlock ==
    Para(<<NewTextNode(<<"a", "<", "b", ">", "\n">>),
           NewTextNodeWithMarks(<<"x">>, <<NewLinkMark(UrlA), NewStrongMark, NewEmphasisMark>>),
           NewTextNodeWithMarks(<<"y", "<">>, <<NewStrikethroughMark, NewUnderlineMark, NewCodeMark>>),
           Node("mention", << >>, << >>, << >>,
                Attr2("id", StrV(UserA), "text", StrV(<<"@", "n">>))),
           Node("inlineCard", << >>, << >>, << >>, Attr1("url", StrV(UrlA))),
           Node("hardBreak", << >>, << >>, << >>, NoAttrs),
           Node("emoji", << >>, << >>, << >>, Attr1("shortName", StrV(<<":", ")">>))),
           Node("inlineCard", << >>, << >>, << >>, NoAttrs)>>)

\* a heading as JSON decoding yields it: the level is a float64
HeadingBlock ==
    Node("heading", <<NewTextNode(<<"h">>)>>, << >>, << >>, Attr1("level", FloatV(2)))

\* a heading as the builder yields it: the level is an int
BuiltHeadingBlock == WithContent(NewHeadingNode(1), <<NewTextNode(<<"h">>)>>)

CodeBlock ==
    Node("codeBlock", <<NewTextNode(<<"c">>)>>, << >>, << >>,
         Attr2("language", StrV(<<"g", "o">>), "uniqueId", StrV(<<"7">>)))

\* an ordered list whose first item nests a bullet list
OrderedBlock ==
    WithContent(NewOrderedListNode(1),
        <<Item(<<Para(<<NewTextNode(<<"a">>)>>),
                 WithContent(NewBulletListNode, <<Item(<<Para(<<NewTextNode(<<"b">>)>>)>>)>>)>>),
          Item(<<Para(<<NewTextNode(<<"c">>)>>)>>)>>)

\* a bullet list whose item nests an ordered list
BulletBlock ==
    WithContent(NewBulletListNode,
        <<Item(<<Para(<<NewTextNode(<<"a">>)>>),
                 WithContent(NewOrderedListNode(1), <<Item(<<Para(<<NewTextNode(<<"b">>)>>)>>)>>)>>)>>)

\* a table with a header row and a row that starts with a header cell
TableBlock ==
    WithContent(NewTableNode,
        <<Row(<<TH(<<Para(<<NewTextNodeWithMarks(<<"H">>, <<NewStrongMark>>)>>)>>),
                TH(<<Para(<< >>)>>)>>),
          Row(<<TH(<<Para(<<NewTextNode(<<"k", "<">>)>>)>>),
                TD(<<Para(<<NewTextNodeWithMarks(<<"v", ">">>,
                                                <<NewEmphasisMark, NewCodeMark>>)>>)>>)>>)>>)

PanelBlock ==
    WithContent(NewPanelNode(<<"i", "n", "f", "o">>), <<Para(<<NewTextNode(<<"p">>)>>)>>)

MediaBlock ==
    Node("mediaGroup",
         <<Node("media", << >>, << >>, << >>,
                Attr2("id", StrV(MediaA), "type", StrV(<<"f", "i", "l", "e">>)))>>,
         << >>, << >>, NoAttrs)

\* a media group without a media child
EmptyMediaBlock == Node("mediaSingle", << >>, << >>, << >>, NoAttrs)

\* a block quote, and inside it a node of a kind no rule names
QuoteBlock ==
    Node("blockquote",
         <<Para(<<NewTextNode(<<"q">>)>>), Node("rule", << >>, << >>, << >>, NoAttrs)>>,
         << >>, << >>, NoAttrs)

Blocks ==
    {InlineBlock, HeadingBlock, BuiltHeadingBlock, CodeBlock, OrderedBlock, BulletBlock,
     TableBlock, PanelBlock, MediaBlock, EmptyMediaBlock, QuoteBlock}

RECURSIVE Size(_)
RECURSIVE SizeAll(_)
\* the number of nodes of a tree, and of a sequence of trees
Size(n) == 1 + SizeAll(n.content)
SizeAll(ns) == IF ns = << >> THEN 0 ELSE Size(Head(ns)) + SizeAll(Tail(ns))

RECURSIVE Label(_, _)
RECURSIVE LabelAll(_, _)
\* the tree with its nodes given the addresses k, k + 1, ... in visit order
Label(n, k) == [n EXCEPT !.ref = k, !.content = LabelAll(n.content, k + 1)]
LabelAll(ns, k) ==
    IF ns = << >> THEN << >>
    ELSE <<Label(Head(ns), k)>> \o LabelAll(Tail(ns), k + Size(Head(ns)))

\* the root node of a document over the given top-level nodes
DocNode(content) == Label(Node("doc", content, << >>, << >>, NoAttrs), 1)

\* the sequences over S of length at most n
SeqsUpTo(S, n) == UNION {[1..k -> S] : k \in 0..n}

Docs == {DocNode(c) : c \in SeqsUpTo(Blocks, MaxBlocks)}

-----------------------------------------------------------------------------
(* The renderer's specification: Translate calls on one renderer.          *)

\* the identifier -> email resolver WithUserEmailResolver may install
ResolverA == [x \in {UserA} |-> MailA]

\* the renderers NewMarkdownTranslator and NewJiraMarkdownTranslator build
Renderers ==
    {NewMarkdownTranslator("none", << >>), NewMarkdownTranslator("jira", ResolverA)}

InitWith(renderers, mappings) ==
    /\ mediaMapping = << >>
    /\ inlineCardMapping = << >>
    /\ tr \in renderers
    /\ buf = << >>
    /\ stack = << >>
    /\ status = "idle"
    /\ doc = DocNode(<< >>)
    /\ calls = << >>
    /\ built = << >>
    /\ userMapping \in mappings

Init == InitWith(Renderers, {<< >>})

\* a Translate call; a later call is handed the tree of the call before
TranslateCall ==
    /\ Len(calls) < MaxCalls
    /\ \E d \in (IF calls = << >> THEN Docs ELSE {calls[Len(calls)].doc}) :
          TranslateStart(d)

Next == TranslateCall \/ VisitOpen \/ VisitClose \/ TranslateReturn

Spec == Init /\ [][Next]_vars

-----------------------------------------------------------------------------
(* The concrete syntax tree the markdown parser hands to the builder       *)
(* (sitter.Node).  A node is [kind, s, e, ch, inl]: its kind, its byte     *)
(* range [s, e) in the content, its children, and for an "inline" node the *)
(* tree GetInlineTree returns for it: << >> for nil, <<root>> otherwise,   *)
(* the ranges of that tree being relative to the inline content.           *)

CSTNode(kind, s, e, ch) == [kind |-> kind, s |-> s, e |-> e, ch |-> ch, inl |-> << >>]

InlineNode(s, e, tree) == [kind |-> "inline", s |-> s, e |-> e, ch |-> << >>, inl |-> tree]

\* string(content[node.StartByte():node.EndByte()])
TextOf(content, node) == Slice(content, node.s, node.e)

\* the children of the node that have the kind, in order
ChildrenOfKind(node, kind) == SelectSeq(node.ch, LAMBDA c : c.kind = kind)

EmphasisFamily == {"strong_emphasis", "underline", "strikethrough", "emphasis"}

-----------------------------------------------------------------------------
(* The builder's inline rules (md2adf: Translator).  p is the Translator:  *)
(* p.userMapping, and p.media and p.cards, the two maps of its reverse     *)
(* translator.                                                             *)

Builder(users, media, cards) == [userMapping |-> users, media |-> media, cards |-> cards]

\* a builder that leaves the domain in the display text
peopleMentionWithDomain(p, text) ==
    LET email == TrimSpace(text)
        userID == IF email \in DOMAIN p.userMapping THEN p.userMapping[email] ELSE email
    IN  NewMentionNode(userID, IF HasPrefix(email, <<"@">>) THEN Tail(email) ELSE email)

\* the "people_mention" case of processInlineTreeWithGaps: the mention node
peopleMention(p, text) ==
    LET email == TrimSpace(text)
        userID == IF email \in DOMAIN p.userMapping THEN p.userMapping[email] ELSE email
        noAt == IF HasPrefix(email, <<"@">>) THEN Tail(email) ELSE email
        atIndex == IndexOf(noAt, "@")
        displayText == IF atIndex # -1 THEN Slice(noAt, 0, atIndex) ELSE noAt
    IN  NewMentionNode(userID, displayText)

\* processCodeSpan with a node for a code span that encloses nothing
processCodeSpanKeepingEmpty(codeNode, inlineContent, parent) ==
    LET texts == ChildrenOfKind(codeNode, "text")
        found == IF texts # << >> THEN TextOf(inlineContent, texts[1]) ELSE << >>
        codeText == IF found = << >>
                    THEN TrimChar(TextOf(inlineContent, codeNode), "BT")
                    ELSE found
    IN  AppendChild(parent, NewTextNodeWithMarks(codeText, <<NewCodeMark>>))

processCodeSpan(codeNode, inlineContent, parent) ==
    LET texts == ChildrenOfKind(codeNode, "text")
        found == IF texts # << >> THEN TextOf(inlineContent, texts[1]) ELSE << >>
        codeText == IF found = << >>
                    THEN TrimChar(TextOf(inlineContent, codeNode), "BT")
                    ELSE found
    IN  IF codeText # << >>
        THEN AppendChild(parent, NewTextNodeWithMarks(codeText, <<NewCodeMark>>))
        ELSE parent

\* s without its first and last character when these are open and close
Unwrap(s, open, close) ==
    IF HasPrefix(s, <<open>>) /\ HasSuffix(s, <<close>>)
    THEN Slice(s, 1, Len(s) - 1) ELSE s

RECURSIVE LinkParts(_, _, _, _)
\* the loop of processLink over the children: linkText and linkURL after it
LinkParts(ch, inlineContent, linkText, linkURL) ==
    IF ch = << >> THEN [text |-> linkText, url |-> linkURL]
    ELSE LET child == Head(ch)
             raw == TextOf(inlineContent, child)
         IN  IF child.kind = "link_text"
             THEN LinkParts(Tail(ch), inlineContent, Unwrap(raw, "[", "]"), linkURL)
             ELSE IF child.kind = "link_destination"
             THEN LinkParts(Tail(ch), inlineContent, linkText, Unwrap(raw, "(", ")"))
             ELSE LinkParts(Tail(ch), inlineContent, linkText, linkURL)

\* a builder that looks the URL up only for a link without a label
processLinkLabelFirst(p, linkNode, inlineContent, parent) ==
    LET l == LinkParts(linkNode.ch, inlineContent, << >>, << >>)
    IN  IF l.text # << >> /\ l.url # << >>
        THEN AppendChild(parent, NewTextNodeWithMarks(l.text, <<NewLinkMark(l.url)>>))
        ELSE IF l.url \in DOMAIN p.cards
        THEN AppendChild(parent, p.cards[l.url])
        ELSE parent

processLink(p, linkNode, inlineContent, parent) ==
    LET l == LinkParts(linkNode.ch, inlineContent, << >>, << >>)
    IN  IF l.url \in DOMAIN p.cards
        THEN AppendChild(parent, p.cards[l.url])
        ELSE IF l.text # << >> /\ l.url # << >>
        THEN AppendChild(parent, NewTextNodeWithMarks(l.text, <<NewLinkMark(l.url)>>))
        ELSE parent

\* the mark extractTextContentWithMarks starts with for the node kind
OwnMarks(nodeType) ==
    CASE nodeType = "strong_emphasis" -> <<NewStrongMark>>
      [] nodeType = "underline" -> <<NewUnderlineMark>>
      [] nodeType = "strikethrough" -> <<NewStrikethroughMark>>
      [] nodeType = "emphasis" -> <<NewEmphasisMark>>
      [] OTHER -> << >>

\* the delimiter scan: the count of "emphasis_delimiter" children, the end of
\* the open-th and the start of the close-th of them (0 when there is none)
Delimiters(node, open, close) ==
    LET ds == ChildrenOfKind(node, "emphasis_delimiter")
    IN  [count |-> Len(ds),
         firstDelimiterEnd |-> IF Len(ds) >= open THEN ds[open].e ELSE 0,
         lastDelimiterStart |-> IF Len(ds) >= close THEN ds[close].s ELSE 0]

\* strings.Contains(childType, "delimiter"), "_open" or "_close", for the
\* kinds of the grammar
IsMarkupKind(childType) ==
    childType \in {"emphasis_delimiter", "code_span_delimiter", "underline_open",
                   "underline_close"}

\* a resolver that lists the marks of the nested node before its own
NestedMarksFirst(marks, nestedMarks) == nestedMarks \o marks

\* allMarks := append(marks, nestedMarks...)
allMarks(marks, nestedMarks) == marks \o nestedMarks

RECURSIVE extractTextContentWithMarks(_, _)
RECURSIVE FallbackText(_, _, _, _)

\* the last loop of extractTextContentWithMarks: the text and the marks
\* gathered from the children
FallbackText(ch, inlineContent, text, marks) ==
    IF ch = << >> THEN [text |-> text, marks |-> marks]
    ELSE LET child == Head(ch)
         IN  IF child.kind = "underline_content"
             THEN FallbackText(Tail(ch), inlineContent,
                               text \o TextOf(inlineContent, child), marks)
             ELSE IF child.kind \in EmphasisFamily
             THEN LET nested == extractTextContentWithMarks(child, inlineContent)
                  IN  FallbackText(Tail(ch), inlineContent,
                                   text \o nested.text, marks \o nested.marks)
             ELSE IF IsMarkupKind(child.kind)
             THEN FallbackText(Tail(ch), inlineContent, text, marks)
             ELSE FallbackText(Tail(ch), inlineContent,
                               text \o TextOf(inlineContent, child), marks)

\* the pair (text, marks) of an emphasis-family node
extractTextContentWithMarks(node, inlineContent) ==
    LET nodeType == node.kind
        marks == OwnMarks(nodeType)
        pair == Delimiters(node, 2, 3)
        single == Delimiters(node, 1, 2)
        inStrong == SelectSeq(node.ch,
                        LAMBDA c : c.kind \in {"underline", "strikethrough", "emphasis"})
        inSingle == SelectSeq(node.ch,
                        LAMBDA c : c.kind \in EmphasisFamily /\ c.kind # nodeType)
        contents == ChildrenOfKind(node, "underline_content")
    IN  IF /\ nodeType = "strong_emphasis"
           /\ pair.count >= 4
           /\ pair.lastDelimiterStart > pair.firstDelimiterEnd
        THEN IF inStrong # << >>
             THEN LET nested == extractTextContentWithMarks(inStrong[1], inlineContent)
                  IN  [text |-> nested.text, marks |-> allMarks(marks, nested.marks)]
             ELSE [text |-> Slice(inlineContent, pair.firstDelimiterEnd,
                                  pair.lastDelimiterStart),
                   marks |-> marks]
        ELSE IF /\ nodeType \in {"strikethrough", "emphasis"}
                /\ single.count >= 2
                /\ single.lastDelimiterStart > single.firstDelimiterEnd
        THEN IF inSingle # << >>
             THEN LET nested == extractTextContentWithMarks(inSingle[1], inlineContent)
                  IN  [text |-> nested.text, marks |-> allMarks(marks, nested.marks)]
             ELSE [text |-> Slice(inlineContent, single.firstDelimiterEnd,
                                  single.lastDelimiterStart),
                   marks |-> marks]
        ELSE IF nodeType = "underline" /\ contents # << >>
        THEN [text |-> TextOf(inlineContent, contents[1]), marks |-> marks]
        ELSE FallbackText(node.ch, inlineContent, << >>, marks)

processTextWithMarks(node, inlineContent, parent) ==
    LET r == extractTextContentWithMarks(node, inlineContent)
    IN  IF TrimSpace(r.text) # << >>
        THEN AppendChild(parent, NewTextNodeWithMarks(r.text, r.marks))
        ELSE parent

\* a run of the content as a text node, unless it is all white space
AppendText(parent, text) ==
    IF TrimSpace(text) # << >> THEN AppendChild(parent, NewTextNode(text)) ELSE parent

RECURSIVE InlineChildrenWithoutGaps(_, _, _, _, _)
\* the loop without the text node for what lies before a child
InlineChildrenWithoutGaps(p, ch, inlineContent, parent, currentPos) ==
    IF ch = << >> THEN [parent |-> parent, currentPos |-> currentPos]
    ELSE LET child == Head(ch)
             text == TextOf(inlineContent, child)
             done == CASE child.kind = "people_mention" ->
                             AppendChild(parent, peopleMention(p, text))
                       [] child.kind = "code_span" ->
                             processCodeSpan(child, inlineContent, parent)
                       [] child.kind = "inline_link" ->
                             processLink(p, child, inlineContent, parent)
                       [] child.kind \in EmphasisFamily ->
                             processTextWithMarks(child, inlineContent, parent)
                       [] OTHER -> AppendText(parent, text)
         IN  InlineChildrenWithoutGaps(p, Tail(ch), inlineContent, done, child.e)

RECURSIVE InlineChildren(_, _, _, _, _)
\* the loop of processInlineTreeWithGaps over the children of the inline
\* root: the parent and currentPos after it
InlineChildren(p, ch, inlineContent, parent, currentPos) ==
    IF ch = << >> THEN [parent |-> parent, currentPos |-> currentPos]
    ELSE LET child == Head(ch)
             text == TextOf(inlineContent, child)
             gapped == IF child.s > currentPos
                       THEN AppendChild(parent,
                                NewTextNode(Slice(inlineContent, currentPos, child.s)))
                       ELSE parent
             done == CASE child.kind = "people_mention" ->
                             AppendChild(gapped, peopleMention(p, text))
                       [] child.kind = "code_span" ->
                             processCodeSpan(child, inlineContent, gapped)
                       [] child.kind = "inline_link" ->
                             processLink(p, child, inlineContent, gapped)
                       [] child.kind \in EmphasisFamily ->
                             processTextWithMarks(child, inlineContent, gapped)
                       [] OTHER -> AppendText(gapped, text)
         IN  InlineChildren(p, Tail(ch), inlineContent, done, child.e)

processInlineTreeWithGaps(p, inlineRoot, inlineContent, parent) ==
    LET r == InlineChildren(p, inlineRoot.ch, inlineContent, parent, 0)
    IN  IF r.currentPos < Len(inlineContent)
        THEN AppendText(r.parent, Slice(inlineContent, r.currentPos, Len(inlineContent)))
        ELSE r.parent

processInlineContent(p, inlineNode, content, parent) ==
    IF inlineNode.inl = << >>
    THEN AppendText(parent, TextOf(content, inlineNode))
    ELSE processInlineTreeWithGaps(p, inlineNode.inl[1], TextOf(content, inlineNode), parent)

-----------------------------------------------------------------------------
(* The builder's block rules (md2adf: Translator).                         *)

\* append(doc.Content, n)
AppendNode(d, n) == [d EXCEPT !.content = Append(@, n)]

HeadingMarkers ==
    {"atx_h1_marker", "atx_h2_marker", "atx_h3_marker", "atx_h4_marker",
     "atx_h5_marker", "atx_h6_marker"}

MarkerLevel(kind) ==
    CASE kind = "atx_h1_marker" -> 1
      [] kind = "atx_h2_marker" -> 2
      [] kind = "atx_h3_marker" -> 3
      [] kind = "atx_h4_marker" -> 4
      [] kind = "atx_h5_marker" -> 5
      [] kind = "atx_h6_marker" -> 6

convertHeading(p, node, content) ==
    LET markers == SelectSeq(node.ch, LAMBDA c : c.kind \in HeadingMarkers)
        level == IF markers = << >> THEN 1 ELSE MarkerLevel(markers[Len(markers)].kind)
        inlines == ChildrenOfKind(node, "inline")
    IN  IF inlines # << >>
        THEN processInlineContent(p, inlines[Len(inlines)], content, NewHeadingNode(level))
        ELSE NewHeadingNode(level)

RECURSIVE ParagraphInlines(_, _, _, _)
ParagraphInlines(p, inlines, content, paragraph) ==
    IF inlines = << >> THEN paragraph
    ELSE ParagraphInlines(p, Tail(inlines), content,
                          processInlineContent(p, Head(inlines), content, paragraph))

convertParagraph(p, node, content) ==
    ParagraphInlines(p, ChildrenOfKind(node, "inline"), content, NewParagraphNode)

\* strings.TrimSuffix
TrimSuffix(s, suffix) ==
    IF HasSuffix(s, suffix) THEN SubSeq(s, 1, Len(s) - Len(suffix)) ELSE s

convertCodeBlock(node, content) ==
    LET infos == ChildrenOfKind(node, "info_string")
        bodies == ChildrenOfKind(node, "code_fence_content")
        language == IF infos = << >> THEN << >>
                    ELSE TrimSpace(TextOf(content, infos[Len(infos)]))
        rawContent == IF bodies = << >> THEN << >>
                      ELSE TextOf(content, bodies[Len(bodies)])
        codeContent == IF HasSuffix(rawContent, <<"\n", "BT", "BT", "BT">>)
                       THEN TrimSuffix(rawContent, <<"\n", "BT", "BT", "BT">>)
                       ELSE TrimSuffix(rawContent, <<"BT", "BT", "BT">>)
    IN  IF codeContent # << >>
        THEN AppendChild(NewCodeBlockNode(language), NewTextNode(codeContent))
        ELSE NewCodeBlockNode(language)

ListMarkers ==
    {"list_marker_dot", "list_marker_minus", "list_marker_plus", "list_marker_star"}

\* getListItemMarkerType with the plus marker among the ordered ones
getListItemMarkerTypePlusOrdered(listItemNode) ==
    LET markers == SelectSeq(listItemNode.ch, LAMBDA c : c.kind \in ListMarkers)
    IN  IF markers = << >> THEN "unknown"
        ELSE IF markers[1].kind \in {"list_marker_dot", "list_marker_plus"} THEN "ordered"
        ELSE "unordered"

getListItemMarkerType(listItemNode) ==
    LET markers == SelectSeq(listItemNode.ch, LAMBDA c : c.kind \in ListMarkers)
    IN  IF markers = << >> THEN "unknown"
        ELSE IF markers[1].kind = "list_marker_dot" THEN "ordered"
        ELSE "unordered"

IsDigit(c) == c \in {"0", "1", "2", "3", "4", "5", "6", "7", "8", "9"}

DigitValue(c) == CHOOSE d \in 0..9 : Digit(d) = c

RECURSIVE LeadingNumber(_, _, _)
\* fmt.Sscanf(s, "%d", &num): the digits s starts with, as [n, num]
LeadingNumber(s, n, num) ==
    IF s # << >> /\ IsDigit(Head(s))
    THEN LeadingNumber(Tail(s), 1, num * 10 + DigitValue(Head(s)))
    ELSE [n |-> n, num |-> num]

RECURSIVE OrderOfMarkers(_, _)
OrderOfMarkers(markers, content) ==
    IF markers = << >> THEN 1
    ELSE LET markerText == TextOf(content, Head(markers))
             numberStr == TrimSuffix(TrimSpace(markerText), <<".">>)
             r == LeadingNumber(numberStr, 0, 0)
         IN  IF r.n = 1 THEN r.num ELSE OrderOfMarkers(Tail(markers), content)

extractOrderFromListItem(listItemNode, content) ==
    OrderOfMarkers(ChildrenOfKind(listItemNode, "list_marker_dot"), content)

RECURSIVE convertList(_, _, _)
RECURSIVE convertListItem(_, _, _)
RECURSIVE ListItemChildren(_, _, _, _)
RECURSIVE ListItems(_, _, _, _)

ListItemChildren(p, ch, content, listItem) ==
    IF ch = << >> THEN listItem
    ELSE LET child == Head(ch)
             next == IF child.kind = "paragraph"
                     THEN AppendChild(listItem, convertParagraph(p, child, content))
                     ELSE IF child.kind = "list"
                     THEN AppendChild(listItem, convertList(p, child, content))
                     ELSE listItem
         IN  ListItemChildren(p, Tail(ch), content, next)

convertListItem(p, node, content) ==
    ListItemChildren(p, node.ch, content, NewListItemNode)

ListItems(p, items, content, listNode) ==
    IF items = << >> THEN listNode
    ELSE ListItems(p, Tail(items), content,
                   AppendChild(listNode, convertListItem(p, Head(items), content)))

convertList(p, node, content) ==
    LET items == ChildrenOfKind(node, "list_item")
        marked == SelectSeq(items, LAMBDA c : getListItemMarkerType(c) # "unknown")
        isOrdered == marked # << >> /\ getListItemMarkerType(marked[1]) = "ordered"
        listNode == IF isOrdered
                    THEN NewOrderedListNode(extractOrderFromListItem(marked[1], content))
                    ELSE NewBulletListNode
    IN  ListItems(p, items, content, listNode)

\* extractPanelType with the empty type for a start that names none
extractPanelTypeWithoutDefault(panelStartNode, content) ==
    LET types == Flatten([i \in 1..Len(ChildrenOfKind(panelStartNode, "panel_type")) |->
                            ChildrenOfKind(ChildrenOfKind(panelStartNode, "panel_type")[i],
                                           "type")])
        typeText == TextOf(content, types[1])
    IN  IF types = << >> THEN << >>
        ELSE IF HasPrefix(typeText, <<"#">>) THEN Tail(typeText)
        ELSE typeText

\* the text of the first "type" child of the "panel_type" children, "info"
\* when there is none
extractPanelType(panelStartNode, content) ==
    LET types == Flatten([i \in 1..Len(ChildrenOfKind(panelStartNode, "panel_type")) |->
                            ChildrenOfKind(ChildrenOfKind(panelStartNode, "panel_type")[i],
                                           "type")])
        typeText == TextOf(content, types[1])
    IN  IF types = << >> THEN <<"i", "n", "f", "o">>
        ELSE IF HasPrefix(typeText, <<"#">>) THEN Tail(typeText)
        ELSE typeText

\* parseCellContent keeping the asterisks of a bold cell in its text
parseCellContentKeepingMarkers(cellText, paragraph, isHeader) ==
    IF /\ HasPrefix(cellText, <<"*", "*">>)
       /\ HasSuffix(cellText, <<"*", "*">>)
       /\ GoLen(cellText) > 4
    THEN AppendChild(paragraph, NewTextNodeWithMarks(cellText, <<NewStrongMark>>))
    ELSE AppendChild(paragraph,
             NewTextNodeWithMarks(cellText, IF isHeader THEN <<NewStrongMark>> ELSE << >>))

parseCellContent(cellText, paragraph, isHeader) ==
    IF /\ HasPrefix(cellText, <<"*", "*">>)
       /\ HasSuffix(cellText, <<"*", "*">>)
       /\ GoLen(cellText) > 4
    THEN AppendChild(paragraph,
             NewTextNodeWithMarks(Slice(cellText, 2, Len(cellText) - 2), <<NewStrongMark>>))
    ELSE AppendChild(paragraph,
             NewTextNodeWithMarks(cellText, IF isHeader THEN <<NewStrongMark>> ELSE << >>))

\* TableCell with no paragraph in the cell of an empty text
TableCellWithoutEmptyParagraph(child, content, isHeader) ==
    LET cell == IF isHeader THEN NewTableHeaderNode ELSE NewTableCellNode
        cellText == TrimSpace(TextOf(content, child))
    IN  IF cellText # << >>
        THEN AppendChild(cell, parseCellContent(cellText, NewParagraphNode, isHeader))
        ELSE cell

\* the cell node convertPipeTableRow builds for one "pipe_table_cell"
TableCell(child, content, isHeader) ==
    LET cell == IF isHeader THEN NewTableHeaderNode ELSE NewTableCellNode
        cellText == TrimSpace(TextOf(content, child))
    IN  IF cellText # << >>
        THEN AppendChild(cell, parseCellContent(cellText, NewParagraphNode, isHeader))
        ELSE AppendChild(cell, NewParagraphNode)

convertPipeTableRow(node, content, isHeader) ==
    LET cells == ChildrenOfKind(node, "pipe_table_cell")
    IN  WithContent(NewTableRowNode,
                    [i \in 1..Len(cells) |-> TableCell(cells[i], content, isHeader)])

convertPipeTable(node, content) ==
    LET rows == SelectSeq(node.ch,
                    LAMBDA c : c.kind \in {"pipe_table_header", "pipe_table_row"})
    IN  WithContent(NewTableNode,
                    [i \in 1..Len(rows) |->
                        convertPipeTableRow(rows[i], content,
                                            rows[i].kind = "pipe_table_header")])

RECURSIVE processNode(_, _, _, _)
RECURSIVE processChildren(_, _, _, _)
RECURSIVE convertPanel(_, _, _)
RECURSIVE PanelChildren(_, _, _, _)
RECURSIVE Attachments(_, _, _, _)

\* the "attachment" case of processNode: the loop over the children
Attachments(p, ch, content, d) ==
    IF ch = << >> THEN d
    ELSE LET child == Head(ch)
             attachmentId == TextOf(content, child)
         IN  IF child.kind = "attachment_path" /\ attachmentId \in DOMAIN p.media
             THEN Attachments(p, Tail(ch), content, AppendNode(d, p.media[attachmentId]))
             ELSE Attachments(p, Tail(ch), content, d)

PanelChildren(p, ch, content, panel) ==
    IF ch = << >> THEN panel
    ELSE LET child == Head(ch)
             next ==
               IF child.kind = "panel_start"
               THEN [panel EXCEPT !.attrs =
                        MapSet(@, "panelType", StrV(extractPanelType(child, content)))]
               ELSE IF child.kind = "section"
               THEN [panel EXCEPT !.content =
                        @ \o processChildren(p, child, content, NewADFDocument).content]
               ELSE IF child.kind \in {"paragraph", "atx_heading", "fenced_code_block", "list"}
               THEN [panel EXCEPT !.content =
                        @ \o processNode(p, child, content, NewADFDocument).content]
               ELSE panel
         IN  PanelChildren(p, Tail(ch), content, next)

convertPanel(p, node, content) ==
    PanelChildren(p, node.ch, content, NewPanelNode(<<"i", "n", "f", "o">>))

\* processNode: the document after the node is processed
processNode(p, node, content, d) ==
    CASE node.kind \in {"document", "section"} -> processChildren(p, node, content, d)
      [] node.kind = "atx_heading" -> AppendNode(d, convertHeading(p, node, content))
      [] node.kind = "attachment" -> Attachments(p, node.ch, content, d)
      [] node.kind = "paragraph" -> AppendNode(d, convertParagraph(p, node, content))
      [] node.kind = "fenced_code_block" -> AppendNode(d, convertCodeBlock(node, content))
      [] node.kind = "list" -> AppendNode(d, convertList(p, node, content))
      [] node.kind = "panel" -> AppendNode(d, convertPanel(p, node, content))
      [] node.kind = "pipe_table" -> AppendNode(d, convertPipeTable(node, content))
      [] OTHER -> d

RECURSIVE ProcessAll(_, _, _, _)
ProcessAll(p, ch, content, d) ==
    IF ch = << >> THEN d
    ELSE ProcessAll(p, Tail(ch), content, processNode(p, Head(ch), content, d))

processChildren(p, node, content, d) == ProcessAll(p, node.ch, content, d)

\* TranslateToADF on the tree the parser returns for the content
TranslateToADF(p, tree, content) == processNode(p, tree, content, NewADFDocument)

\* the unsafeTypes map of CheckSafeForV2: the types it holds
unsafeTypes ==
    {"panel", "media", "mediaGroup", "mediaSingle", "inlineCard", "emoji", "mention",
     "hardBreak", "underline"}

\* the found list with the type added when it is unsafe and not yet there
Found(found, type) ==
    IF type \in unsafeTypes /\ \A k \in 1..Len(found) : found[k] # type
    THEN Append(found, type) ELSE found

RECURSIVE FoundInMarks(_, _)
\* the loop of traverseADFNode over the marks
FoundInMarks(marks, found) ==
    IF marks = << >> THEN found
    ELSE FoundInMarks(Tail(marks), Found(found, Head(marks).type))

RECURSIVE traverseADFNodeWithoutMarks(_, _)
RECURSIVE TraverseAllWithoutMarks(_, _)
\* traverseADFNode without the loop over the marks
traverseADFNodeWithoutMarks(node, found) ==
    TraverseAllWithoutMarks(node.content, Found(found, node.type))
TraverseAllWithoutMarks(nodes, found) ==
    IF nodes = << >> THEN found
    ELSE TraverseAllWithoutMarks(Tail(nodes), traverseADFNodeWithoutMarks(Head(nodes), found))

RECURSIVE traverseADFNode(_, _)
RECURSIVE TraverseAll(_, _)
\* traverseADFNode: the found list after the node, its marks and its children
traverseADFNode(node, found) ==
    TraverseAll(node.content, FoundInMarks(node.marks, Found(found, node.type)))
\* the loop over the children, and that of traverseADFTree over a document
TraverseAll(nodes, found) ==
    IF nodes = << >> THEN found
    ELSE TraverseAll(Tail(nodes), traverseADFNode(Head(nodes), found))

traverseADFTree(d, found) == TraverseAll(d.content, found)

\* the error CheckSafeForV2 returns for the found list: nil, or the list
UnsafeError(foundUnsafeTypes) ==
    [nil |-> Len(foundUnsafeTypes) = 0, types |-> foundUnsafeTypes]

\* CheckSafeForV2 from the built document on: the document and the error
CheckBuilt(d) == [doc |-> d, err |-> UnsafeError(traverseADFTree(d, << >>))]

\* CheckSafeForV2 on the tree the parser returns for the body: the document
\* it builds and the error it returns
CheckSafeForV2(p, tree, body) == CheckBuilt(TranslateToADF(p, tree, body))

-----------------------------------------------------------------------------
(* The inputs of the builder: markdown contents with the trees the parser  *)
(* returns for them.  A piece is [src, nodes]: a run of inline markdown    *)
(* and the inline nodes the parser makes of it, the ranges relative to the *)
(* start of the run.                                                       *)

RECURSIVE Shift(_, _)
\* the node with its range and those of its descendants moved by k
Shift(n, k) ==
    [n EXCEPT !.s = @ + k, !.e = @ + k,
              !.ch = [i \in 1..Len(n.ch) |-> Shift(n.ch[i], k)]]

Piece(src, nodes) == [src |-> src, nodes |-> nodes]

\* characters the inline grammar names no node for
Gap(src) == Piece(src, << >>)

TextPiece(src) == Piece(src, <<CSTNode("text", 0, Len(src), << >>)>>)

MentionPiece(src) == Piece(src, <<CSTNode("people_mention", 0, Len(src), << >>)>>)

\* a code span, with or without a "text" child for what it encloses
CodePiece(text, named) ==
    Piece(<<"BT">> \o text \o <<"BT">>,
          <<CSTNode("code_span", 0, Len(text) + 2,
                    <<CSTNode("code_span_delimiter", 0, 1, << >>)>>
                    \o (IF named THEN <<CSTNode("text", 1, Len(text) + 1, << >>)>> ELSE << >>)
                    \o <<CSTNode("code_span_delimiter", Len(text) + 1, Len(text) + 2, << >>)>>)>>)

LinkPiece(label, url) ==
    Piece(<<"[">> \o label \o <<"]", "(">> \o url \o <<")">>,
          <<CSTNode("inline_link", 0, Len(label) + Len(url) + 4,
                    <<CSTNode("link_text", 0, Len(label) + 2, << >>),
                      CSTNode("link_destination", Len(label) + 2,
                              Len(label) + Len(url) + 4, << >>)>>)>>)

\* the delimiter run of an emphasis kind, each character one delimiter node
Delimiter(kind) ==
    CASE kind = "strong_emphasis" -> <<"*", "*">>
      [] kind = "strikethrough" -> <<"~">>
      [] kind = "emphasis" -> <<"_">>

\* the piece wrapped in an emphasis of the kind; what an underline encloses
\* is one "underline_content" node without children
Wrap(kind, inner) ==
    IF kind = "underline"
    THEN LET src == <<"<", "u", ">">> \o inner.src \o <<"<", "/", "u", ">">>
         IN  Piece(src,
                   <<CSTNode("underline", 0, Len(src),
                             <<CSTNode("underline_open", 0, 3, << >>),
                               CSTNode("underline_content", 3, 3 + Len(inner.src), << >>),
                               CSTNode("underline_close", 3 + Len(inner.src), Len(src),
                                       << >>)>>)>>)
    ELSE LET d == Delimiter(kind)
             n == Len(d)
             m == Len(inner.src)
         IN  Piece(d \o inner.src \o d,
                   <<CSTNode(kind, 0, m + 2 * n,
                             [i \in 1..n |-> CSTNode("emphasis_delimiter", i - 1, i, << >>)]
                             \o [i \in 1..Len(inner.nodes) |-> Shift(inner.nodes[i], n)]
                             \o [i \in 1..n |->
                                   CSTNode("emphasis_delimiter", n + m + i - 1, n + m + i,
                                           << >>)])>>)

RECURSIVE Chain(_, _)
\* the text wrapped in emphasis of the kinds, the first kind outermost
Chain(kinds, text) ==
    IF kinds = << >> THEN Gap(text) ELSE Wrap(Head(kinds), Chain(Tail(kinds), text))

RECURSIVE Assemble(_, _)
\* the pieces one after the other from offset at on
Assemble(pieces, at) ==
    IF pieces = << >> THEN Piece(<< >>, << >>)
    ELSE LET h == Head(pieces)
             r == Assemble(Tail(pieces), at + Len(h.src))
         IN  Piece(h.src \o r.src,
                   [i \in 1..Len(h.nodes) |-> Shift(h.nodes[i], at)] \o r.nodes)

\* an input of TranslateToADF: the content and the tree parsed from it
Input(tree, content) == [tree |-> tree, content |-> content]

\* the "inline" node of the range [s, e) over the pieces
InlineOf(pieces, s) ==
    LET a == Assemble(pieces, 0)
    IN  InlineNode(s, s + Len(a.src),
                   <<CSTNode("inline", 0, Len(a.src), a.nodes)>>)

Document(content, blocks) ==
    Input(CSTNode("document", 0, Len(content),
                  <<CSTNode("section", 0, Len(content), blocks)>>),
          content)

\* a document of one paragraph over the pieces
ParagraphInput(pieces) ==
    LET src == Assemble(pieces, 0).src
    IN  Document(src, <<CSTNode("paragraph", 0, Len(src), <<InlineOf(pieces, 0)>>)>>)

\* a document of one level-1 heading over the pieces
HeadingInput(pieces) ==
    LET src == <<"#", " ">> \o Assemble(pieces, 0).src
    IN  Document(src,
                 <<CSTNode("atx_heading", 0, Len(src),
                           <<CSTNode("atx_h1_marker", 0, 1, << >>), InlineOf(pieces, 2)>>)>>)

\* a document of one attachment reference with the path
AttachmentInput(path) ==
    LET open == <<"{", "a", "t", "t", "a", "c", "h", "m", "e", "n", "t", ":">>
        src == open \o path \o <<"}">>
    IN  Document(src,
                 <<CSTNode("attachment", 0, Len(src),
                           <<CSTNode("attachment_path", Len(open), Len(open) + Len(path),
                                     << >>)>>)>>)

-----------------------------------------------------------------------------
(* The builder's specification: one TranslateToADF call of a builder that  *)
(* was given no renderer (TranslateToADF keeps no state between calls).    *)

TokenA == <<"@", "a", "@", "d">>
TokenB == <<"@", "b", "@", "e">>
UrlC == <<"u", "3">>
MediaC == <<"m", "3">>

\* the mappings WithUserEmailMapping may install; << >> is none
UserMappings == {<< >>, [x \in {TokenA} |-> UserA]}

\* the chains of emphasis kinds, pairwise different, the first outermost; an
\* underline is innermost, what it encloses being one node without children
KindChains ==
    {c \in UNION {[1..n -> EmphasisFamily] : n \in 1..Cardinality(EmphasisFamily)} :
        /\ \A i, j \in 1..Len(c) : c[i] = c[j] => i = j
        /\ \A i \in 1..(Len(c) - 1) : c[i] # "underline"}

ChainTexts == {<<"x">>, <<"a", " ", "b">>}

ChainPieces ==
    {Chain(k, t) : k \in KindChains, t \in ChainTexts}
    \cup {Chain(<<"underline">>, <<"*", "*", "x", "*", "*">>)}

InlinePieces ==
    {TextPiece(<<"t">>), Gap(<<",", " ">>), Gap(<<" ">>),
     MentionPiece(TokenA), MentionPiece(TokenB), MentionPiece(TokenA \o <<" ">>),
     MentionPiece(<<"@", "c">>),
     CodePiece(<<"c">>, TRUE), CodePiece(<<"c">>, FALSE),
     LinkPiece(<<"l">>, UrlA), LinkPiece(<< >>, UrlB),
     Chain(<<"strong_emphasis">>, <<"x">>)}

\* ", `c` @b@e" followed by a full stop, by a space and by nothing: runs the
\* grammar names no node for before, between and after the children
GapPieces(last) ==
    <<Gap(<<",", " ">>), CodePiece(<<"c">>, TRUE), Gap(<<" ">>), MentionPiece(TokenB)>> \o last

GapInputs ==
    {ParagraphInput(GapPieces(last)) : last \in {<<Gap(<<".">>)>>, <<Gap(<<" ">>)>>, << >>}}
    \cup {HeadingInput(GapPieces(<<Gap(<<".">>)>>))}

BuildInputs ==
    {ParagraphInput(<<c>>) : c \in ChainPieces}
    \cup {ParagraphInput(s) : s \in SeqsUpTo(InlinePieces, MaxInline)}
    \cup {HeadingInput(<<c>>) : c \in InlinePieces}
    \cup GapInputs

\* a TranslateToADF call on one of the inputs, by a builder that shares the
\* registry of the renderer
TranslateToADFCall(inputs) ==
    /\ status = "idle"
    /\ \E i \in inputs :
          built' = Append(built,
                     [input |-> i,
                      doc |-> TranslateToADF(
                                 Builder(userMapping, mediaMapping, inlineCardMapping),
                                 i.tree, i.content)])
    /\ UNCHANGED <<mediaMapping, inlineCardMapping, tr, buf, stack, status, doc,
                   calls, userMapping>>

BuildOnce == built = << >> /\ TranslateToADFCall(BuildInputs)

InitBuild == InitWith({NewMarkdownTranslator("jira", << >>)}, UserMappings)

NextBuild == BuildOnce

SpecBuild == InitBuild /\ [][NextBuild]_vars

-----------------------------------------------------------------------------
(* The registry's specification: Translate calls of one renderer and a     *)
(* TranslateToADF call of a builder that was given this renderer           *)
(* (WithAdf2MdTranslator), in any order.                                   *)

Card(url) == Node("inlineCard", << >>, << >>, << >>, Attr1("url", StrV(url)))

Media(id) ==
    Node("media", << >>, << >>, << >>,
         Attr2("id", StrV(id), "type", StrV(<<"f", "i", "l", "e">>)))

RegistryBlocks ==
    {Para(<<Card(UrlA), NewTextNode(<<"t">>), Card(UrlA)>>),
     Para(<<Card(UrlB)>>),
     Para(<<Node("inlineCard", << >>, << >>, << >>, NoAttrs)>>),
     Node("mediaGroup", <<Media(MediaA), Media(MediaB)>>, << >>, << >>, NoAttrs),
     Node("mediaSingle", <<Media(MediaA)>>, << >>, << >>, NoAttrs),
     Node("mediaGroup",
          <<Node("media", << >>, << >>, << >>, Attr1("type", StrV(<<"f", "i", "l", "e">>)))>>,
          << >>, << >>, NoAttrs)}

\* the number of nodes of the trees rendered so far
RECURSIVE RenderedSize(_)
RenderedSize(cs) == IF cs = << >> THEN 0 ELSE Size(Head(cs).doc) + RenderedSize(Tail(cs))

\* a Translate call on a tree of one block; its nodes are new ones
TranslateShared ==
    /\ Len(calls) < MaxCalls
    /\ \E b \in RegistryBlocks :
          TranslateStart(Label(Node("doc", <<b>>, << >>, << >>, NoAttrs),
                               1 + RenderedSize(calls)))

RegistryInputs ==
    {ParagraphInput(<<LinkPiece(l, u)>>) : l \in {<<"l">>, << >>}, u \in {UrlA, UrlB, UrlC}}
    \cup {AttachmentInput(x) : x \in {MediaA, MediaB, MediaC}}

BuildShared == built = << >> /\ TranslateToADFCall(RegistryInputs)

InitRegistry == InitWith({NewMarkdownTranslator("none", << >>)}, {<< >>})

NextRegistry ==
    TranslateShared \/ VisitOpen \/ VisitClose \/ TranslateReturn \/ BuildShared

SpecRegistry == InitRegistry /\ [][NextRegistry]_vars

-----------------------------------------------------------------------------
(* The markdown parser, for the round trip.  The parser is a library the   *)
(* builder calls and not among the sources; what follows gives the trees   *)
(* the builder is written against, for texts of headings, of paragraphs of *)
(* plain text and of pipe tables: a table is a header line, a delimiter    *)
(* line and data lines, each cell the range between two pipes.             *)

\* the offsets of the line ends of the text, in order
Newlines(text) ==
    SelectSeq([i \in 1..Len(text) |-> i - 1], LAMBDA o : text[o + 1] = "\n")

\* the ranges [s, e) of the lines of the text, without their line ends
LineRanges(text) ==
    LET nl == Newlines(text)
    IN  [k \in 1..(Len(nl) + 1) |->
            [s |-> IF k = 1 THEN 0 ELSE nl[k - 1] + 1,
             e |-> IF k <= Len(nl) THEN nl[k] ELSE Len(text)]]

IsBlankLine(text, r) == \A i \in (r.s + 1)..r.e : IsSpace(text[i])

IsRowLine(text, r) == r.e > r.s /\ text[r.s + 1] = "|"

IsDelimiterLine(text, r) ==
    /\ IsRowLine(text, r)
    /\ \A i \in (r.s + 1)..r.e : text[i] \in {"|", "-", ":", " "}
    /\ \E i \in (r.s + 1)..r.e : text[i] = "-"

IsHeadingLine(text, r) == r.e > r.s /\ text[r.s + 1] = "#"

\* the offsets of the pipes of a line, in order
PipesOf(text, r) ==
    SelectSeq([i \in 1..(r.e - r.s) |-> r.s + i - 1], LAMBDA o : text[o + 1] = "|")

\* the node of one line of a table, its cells the ranges between the pipes
RowNode(kind, cellKind, text, r) ==
    LET ps == PipesOf(text, r)
    IN  CSTNode(kind, r.s, r.e,
                [j \in 1..(Len(ps) - 1) |-> CSTNode(cellKind, ps[j] + 1, ps[j + 1], << >>)])

\* the table of the lines first..last: a header line, a delimiter line, data lines
TableNode(text, lines, first, last) ==
    CSTNode("pipe_table", lines[first].s, lines[last].e,
            [i \in 1..(last - first + 1) |->
                IF i = 1
                THEN RowNode("pipe_table_header", "pipe_table_cell", text, lines[first])
                ELSE IF i = 2
                THEN RowNode("pipe_table_delimiter_row", "pipe_table_delimiter_cell",
                             text, lines[first + 1])
                ELSE RowNode("pipe_table_row", "pipe_table_cell", text,
                             lines[first + i - 1])])

\* the number of "#" the line starts with
LeadingHashes(text, r) ==
    CHOOSE n \in 0..(r.e - r.s) :
        /\ \A i \in 1..n : text[r.s + i] = "#"
        /\ n = r.e - r.s \/ text[r.s + n + 1] # "#"

\* an inline node of plain text: its inline tree names no node
PlainInline(s, e) == InlineNode(s, e, <<CSTNode("inline", 0, e - s, << >>)>>)

HeadingNode(text, r) ==
    LET level == LeadingHashes(text, r)
        marker == <<"atx_h1_marker", "atx_h2_marker", "atx_h3_marker", "atx_h4_marker",
                    "atx_h5_marker", "atx_h6_marker">>[level]
        from == r.e - Len(TrimLeftSpace(Slice(text, r.s + level, r.e)))
    IN  CSTNode("atx_heading", r.s, r.e,
                <<CSTNode(marker, r.s, r.s + level, << >>)>>
                \o (IF from < r.e THEN <<PlainInline(from, r.e)>> ELSE << >>))

ParagraphNode(text, r) == CSTNode("paragraph", r.s, r.e, <<PlainInline(r.s, r.e)>>)

\* the first and the last line of the run of table lines that line k is in
RunStart(text, lines, k) ==
    CHOOSE j \in 1..k :
        /\ \A i \in j..k : IsRowLine(text, lines[i])
        /\ j = 1 \/ ~IsRowLine(text, lines[j - 1])

RunEnd(text, lines, k) ==
    CHOOSE j \in k..Len(lines) :
        /\ \A i \in k..j : IsRowLine(text, lines[i])
        /\ j = Len(lines) \/ ~IsRowLine(text, lines[j + 1])

\* line k is a line of a table: its run starts with a header and a delimiter
InTable(text, lines, k) ==
    /\ IsRowLine(text, lines[k])
    /\ RunStart(text, lines, k) < Len(lines)
    /\ IsDelimiterLine(text, lines[RunStart(text, lines, k) + 1])

NoBlock == CSTNode("none", 0, 0, << >>)

\* the block that starts at line k, NoBlock if none does
BlockAt(text, lines, k) ==
    IF IsBlankLine(text, lines[k]) THEN NoBlock
    ELSE IF InTable(text, lines, k)
    THEN IF RunStart(text, lines, k) = k
         THEN TableNode(text, lines, k, RunEnd(text, lines, k))
         ELSE NoBlock
    ELSE IF IsHeadingLine(text, lines[k]) /\ LeadingHashes(text, lines[k]) <= 6
    THEN HeadingNode(text, lines[k])
    ELSE ParagraphNode(text, lines[k])

ParseBlocks(text, lines) ==
    SelectSeq([k \in 1..Len(lines) |-> BlockAt(text, lines, k)],
              LAMBDA n : n.kind # "none")

\* markdownParser.Parse
Parse(text) == Document(text, ParseBlocks(text, LineRanges(text)))

-----------------------------------------------------------------------------
(* The round trip's specification: a text is built, the document rendered  *)
(* with the default dialect, and the rendered text built again.            *)

CellTexts ==
    <<<<"a">>, <<"b", "c">>, <<"d", " ", "e">>, <<"*", "*">>, <<"g", "h", "<">>, <<">", "i">>>>

\* the table of cols columns and rows data rows whose cells take the texts of
\* CellTexts in turn, the first header cell the one after shift
TableOf(cols, rows, shift) ==
    [i \in 1..(rows + 1) |->
        [j \in 1..cols |->
            CellTexts[(((i - 1) * cols + (j - 1) + shift) % Len(CellTexts)) + 1]]]

Tables ==
    {TableOf(c, r, k) : c \in 1..MaxTableCols, r \in 0..MaxTableRows, k \in 0..(Len(CellTexts) - 1)}

\* one line of a pipe table
RowText(cells) ==
    <<"|">> \o Flatten([j \in 1..Len(cells) |-> <<" ">> \o cells[j] \o <<" ", "|">>])

\* the markdown of a table: the header line, the delimiter line, the data lines
TableText(t) ==
    RowText(t[1])
    \o <<"\n">> \o RowText([j \in 1..Len(t[1]) |-> <<"-", "-", "-">>])
    \o Flatten([i \in 1..(Len(t) - 1) |-> <<"\n">> \o RowText(t[i + 1])])

RoundTripTexts ==
    {TableText(t) : t \in Tables}
    \cup {<<"#", " ", "h">>, <<"p", " ", "q">>}

\* TranslateToADF is called on a text: one of the family at first, the rendered
\* text once the document has been rendered
RoundTripBuild ==
    /\ Len(built) = Len(calls)
    /\ Len(built) < 2
    /\ TranslateToADFCall({Parse(x) : x \in IF built = << >> THEN RoundTripTexts
                                                              ELSE {calls[1].out}})

\* Translate is called on a "doc" node around the content of the document
RoundTripRender ==
    /\ Len(built) = 1
    /\ calls = << >>
    /\ TranslateStart(Node("doc", built[1].doc.content, << >>, << >>, NoAttrs))

InitRoundTrip == InitWith({NewMarkdownTranslator("none", << >>)}, {<< >>})

NextRoundTrip ==
    \/ RoundTripBuild
    \/ RoundTripRender
    \/ VisitOpen
    \/ VisitClose
    \/ TranslateReturn

SpecRoundTrip == InitRoundTrip /\ [][NextRoundTrip]_vars

-----------------------------------------------------------------------------
(* The blocks specification: one TranslateToADF call on a document of one  *)
(* block (a list, a table, a panel, a heading, a paragraph) whose tree is  *)
(* given with it.                                                          *)

\* the dot markers of the lists that are built, each with the number its text
\* announces (parsed is FALSE when the text announces none)
DotMarkers ==
    {[text |-> <<"1", ".">>, parsed |-> TRUE, num |-> 1],
     [text |-> <<"2", ".">>, parsed |-> TRUE, num |-> 2],
     [text |-> <<"5", ".">>, parsed |-> TRUE, num |-> 5],
     [text |-> <<"0", ".">>, parsed |-> TRUE, num |-> 0],
     [text |-> <<"1", "2", ".">>, parsed |-> TRUE, num |-> 12],
     [text |-> <<".">>, parsed |-> FALSE, num |-> 0],
     [text |-> <<"x", ".">>, parsed |-> FALSE, num |-> 0]}

\* the markers an item of a list may have: the kind of the node and its text
ItemMarkers ==
    {[kind |-> "list_marker_dot", text |-> m.text] : m \in DotMarkers}
    \cup {[kind |-> "list_marker_minus", text |-> <<"-">>],
          [kind |-> "list_marker_plus", text |-> <<"+">>],
          [kind |-> "list_marker_star", text |-> <<"*">>]}

\* the list item "<marker> <text>\n" followed by the lines of the blocks nested in
\* it: the marker node (its range holds the space after it), the paragraph
\* of the text, the nested blocks
ItemPiece(marker, text, nested) ==
    LET m == Len(marker.text) + 1
        own == marker.text \o <<" ">> \o text \o <<"\n">>
        src == own \o nested.src
    IN  Piece(src,
              <<CSTNode("list_item", 0, Len(src),
                        <<CSTNode(marker.kind, 0, m, << >>),
                          CSTNode("paragraph", m, Len(own),
                                  <<PlainInline(m, Len(own) - 1)>>)>>
                        \o [i \in 1..Len(nested.nodes) |-> Shift(nested.nodes[i], Len(own))])>>)

\* the text of the item at position k of a list
ItemText(k) == <<"t">> \o Itoa(k)

\* the list of the items with the markers, one after the other
ListPiece(markers) ==
    LET a == Assemble([k \in 1..Len(markers) |->
                          ItemPiece(markers[k], ItemText(k), Piece(<< >>, << >>))], 0)
    IN  Piece(a.src, <<CSTNode("list", 0, Len(a.src), a.nodes)>>)

\* a list of one item with the marker that holds a nested list of the markers
NestedListPiece(marker, markers) ==
    LET a == ItemPiece(marker, ItemText(0), ListPiece(markers))
    IN  Piece(a.src, <<CSTNode("list", 0, Len(a.src), a.nodes)>>)

\* a document of the blocks of the piece
BlockInput(piece) == Document(piece.src, piece.nodes)

\* a marker the builder has no rule for
ParenthesisMarker == [kind |-> "list_marker_parenthesis", text |-> <<"3", ")">>]

ListInputs ==
    {BlockInput(ListPiece(ms)) : ms \in SeqsUpTo(ItemMarkers, MaxItems) \ {<< >>}}
    \cup {BlockInput(ListPiece([k \in 1..n |-> ParenthesisMarker])) : n \in 1..MaxItems}
    \cup {BlockInput(NestedListPiece(m, <<n>>)) :
            m \in {k \in ItemMarkers : k.text \in {<<"-">>, <<"2", ".">>}},
            n \in {k \in ItemMarkers : k.text \in {<<"*">>, <<"5", ".">>}}}

\* what stands between two pipes of the lines of the tables that are built
RawCells ==
    <<<<" ", "a", " ">>, << >>, <<"*", "*", "x", "*", "*">>, <<" ", " ">>,
      <<" ", "*", "*", "x", " ", "y", "*", "*", " ">>, <<"*", "*", "*", "*">>,
      <<"b">>, <<"*", "*", "*">>, <<"*", "*", "*", "*", "*">>, <<"*", "*", "c">>,
      <<"*", "*", "U276C", "*", "*">>>>

\* the line of the cells
RawRow(cells) == <<"|">> \o Flatten([j \in 1..Len(cells) |-> cells[j] \o <<"|">>])

\* the table of cols columns and rows data rows that takes its cells from
\* RawCells, from the one after shift on
RawTable(cols, rows, shift) ==
    [i \in 1..(rows + 1) |->
        [j \in 1..cols |->
            RawCells[(((i - 1) * cols + (j - 1) + shift) % Len(RawCells)) + 1]]]

\* the table as markdown with its tree: a header line, a delimiter line, the
\* data lines
TablePiece(t) ==
    LET text == RawRow(t[1])
                \o <<"\n">> \o RawRow([j \in 1..Len(t[1]) |-> <<"-", "-", "-">>])
                \o Flatten([i \in 1..(Len(t) - 1) |-> <<"\n">> \o RawRow(t[i + 1])])
        lines == LineRanges(text)
    IN  Piece(text, <<TableNode(text, lines, 1, Len(lines))>>)

TableInputs ==
    {BlockInput(TablePiece(RawTable(c, r, k))) :
        c \in 1..MaxTableCols, r \in 0..MaxTableRows, k \in 0..(Len(RawCells) - 1)}

\* code spans and links with and without something in them
EdgePieces ==
    {TextPiece(<<"t">>),
     CodePiece(<<"c">>, TRUE), CodePiece(<< >>, TRUE), CodePiece(<< >>, FALSE),
     CodePiece(<<"BT">>, FALSE), CodePiece(<<" ">>, TRUE),
     LinkPiece(<<"l">>, UrlA), LinkPiece(<< >>, UrlA), LinkPiece(<<"l">>, << >>),
     LinkPiece(<< >>, << >>)}

EdgeInputs == {ParagraphInput(ps) : ps \in SeqsUpTo(EdgePieces, MaxInline)}

\* a heading with the markers, one "#" run each, and the text (no "inline"
\* child when the text is empty)
HeadingPiece(markers, text) ==
    LET runs == [k \in 1..Len(markers) |->
                    Piece(Repeat(<<"#">>, MarkerLevel(markers[k])) \o <<" ">>,
                          <<CSTNode(markers[k], 0, MarkerLevel(markers[k]), << >>)>>)]
        a == Assemble(runs, 0)
        src == a.src \o text
    IN  Piece(src,
              <<CSTNode("atx_heading", 0, Len(src),
                        a.nodes \o (IF text = << >> THEN << >>
                                    ELSE <<PlainInline(Len(a.src), Len(src))>>))>>)

HeadingInputs ==
    {BlockInput(HeadingPiece(ms, t)) :
        ms \in {<< >>, <<"atx_h2_marker", "atx_h3_marker">>,
                <<"atx_h4_marker", "atx_h1_marker">>}
               \cup {<<m>> : m \in HeadingMarkers},
        t \in {<< >>, <<"h">>}}

PanelOpen == <<"{", "p", "a", "n", "e", "l">>

PanelEnd == <<"{", "/", "p", "a", "n", "e", "l", "}">>

\* a panel: start is "none" (no "panel_start" child), "bare" (one without a
\* "panel_type"), "untyped" (a "panel_type" without a "type") or "typed" (the
\* type is the text of the "type" child); the blocks follow, then the end mark
PanelPiece(start, type, blocks) ==
    LET key == <<":", "t", "y", "p", "e", "=">>
        head == IF start \in {"none", "bare"} THEN PanelOpen \o <<"}", "\n">>
                ELSE PanelOpen \o key \o type \o <<"}", "\n">>
        from == Len(PanelOpen)
        to == Len(head) - 2
        panelType ==
            CSTNode("panel_type", from, to,
                    IF start = "typed"
                    THEN <<CSTNode("type", from + Len(key), to, << >>)>> ELSE << >>)
        panelStart ==
            CSTNode("panel_start", 0, Len(head) - 1,
                    IF start = "bare" THEN << >> ELSE <<panelType>>)
        src == head \o blocks.src \o PanelEnd
    IN  Piece(src,
              <<CSTNode("panel", 0, Len(src),
                        (IF start = "none" THEN << >> ELSE <<panelStart>>)
                        \o [i \in 1..Len(blocks.nodes) |-> Shift(blocks.nodes[i], Len(head))]
                        \o <<CSTNode("panel_end_mark", Len(head) + Len(blocks.src),
                                     Len(src), << >>)>>)>>)

PanelTypes == {<<"n", "o", "t", "e">>, <<"#", "n", "o", "t", "e">>, <<"i", "n", "f", "o">>}

\* the blocks of the panels: none, a paragraph, a list that starts at 2
PanelBodies ==
    {Piece(<< >>, << >>),
     Piece(<<"t", "\n">>, <<CSTNode("paragraph", 0, 2, <<PlainInline(0, 1)>>)>>),
     ListPiece(<<[kind |-> "list_marker_dot", text |-> <<"2", ".">>]>>)}

PanelInputs ==
    {BlockInput(PanelPiece(s, << >>, b)) : s \in {"none", "bare", "untyped"}, b \in PanelBodies}
    \cup {BlockInput(PanelPiece("typed", t, b)) : t \in PanelTypes, b \in PanelBodies}

BlockInputs == ListInputs \cup TableInputs \cup EdgeInputs \cup HeadingInputs \cup PanelInputs

\* TranslateToADF is called once, on one of the inputs
BuildBlock == built = << >> /\ TranslateToADFCall(BlockInputs)

InitBlocks == InitWith({NewMarkdownTranslator("jira", << >>)}, {<< >>})

NextBlocks == BuildBlock

SpecBlocks == InitBlocks /\ [][NextBlocks]_vars

-----------------------------------------------------------------------------
(* The substitution's specification: ReplaceAll calls on one root node.    *)

\* a root with a text of its own, over text nodes at two depths, one of them
\* with marks and a child, and a node that is not a text node but has a text
MixedRoot ==
    Node("paragraph",
         <<NewTextNode(<<"a", "a", "a">>),
           Node("emoji", << >>, <<"a">>, << >>, Attr1("shortName", StrV(<<"a">>))),
           Node("text", <<NewTextNode(<<"b", "a">>)>>, <<"a", "b">>,
                <<NewLinkMark(<<"a">>), NewStrongMark>>, NoAttrs)>>,
         <<"a">>, << >>, NoAttrs)

ReplaceRoots ==
    {DocNode(<<InlineBlock>>), DocNode(<<OrderedBlock, TableBlock>>),
     NewTextNode(<<"a", "a">>), MixedRoot}

ReplaceOlds == {<<"a">>, <<"a", "a">>, << >>, <<"z">>}

ReplaceNews == {<< >>, <<"b">>, <<"a", "b">>}

\* ReplaceAll(old, new) on the root; the call is recorded with the root
\* before it and after it
ReplaceAllCall ==
    /\ Len(calls) < MaxCalls
    /\ \E old \in ReplaceOlds, new \in ReplaceNews :
          /\ doc' = ReplaceAll(doc, old, new)
          /\ calls' = Append(calls, [doc |-> doc, old |-> old, new |-> new,
                                     out |-> ReplaceAll(doc, old, new)])
    /\ UNCHANGED <<mediaMapping, inlineCardMapping, tr, buf, stack, status, built,
                   userMapping>>

InitReplace ==
    /\ mediaMapping = << >>
    /\ inlineCardMapping = << >>
    /\ tr = NewMarkdownTranslator("none", << >>)
    /\ buf = << >>
    /\ stack = << >>
    /\ status = "idle"
    /\ doc \in ReplaceRoots
    /\ calls = << >>
    /\ built = << >>
    /\ userMapping = << >>

NextReplace == ReplaceAllCall

SpecReplace == InitReplace /\ [][NextReplace]_vars

-----------------------------------------------------------------------------
(* The classification's specification: GetADFNodeType calls.               *)

\* the node types and mark types adf.go names, and two it does not
NodeTypes ==
    {"blockquote", "bulletList", "codeBlock", "heading", "orderedList", "panel",
     "paragraph", "table", "media", "mediaGroup", "mediaSingle",
     "text", "listItem", "tableRow", "tableHeader", "tableCell",
     "inlineCard", "emoji", "mention", "hardBreak",
     "em", "link", "code", "strike", "strong", "underline",
     "parent", "child", "unknown", "doc", "rule"}

\* GetADFNodeType(identifier); the call is recorded with what it returned
GetADFNodeTypeCall ==
    /\ Len(calls) < MaxCalls
    /\ \E k \in NodeTypes :
          calls' = Append(calls, [kind |-> k, out |-> GetADFNodeType(k)])
    /\ UNCHANGED <<mediaMapping, inlineCardMapping, tr, buf, stack, status, doc, built,
                   userMapping>>

InitClassify == InitWith({NewMarkdownTranslator("none", << >>)}, {<< >>})

NextClassify == GetADFNodeTypeCall

SpecClassify == InitClassify /\ [][NextClassify]_vars

-----------------------------------------------------------------------------
(* The compatibility check's specification: Translate calls of one         *)
(* renderer and a CheckSafeForV2 call of a builder that was given this     *)
(* renderer, in any order.                                                 *)

\* a paragraph over the pieces, as a block
ParagraphPiece(pieces) ==
    LET src == Assemble(pieces, 0).src
    IN  Piece(src, <<CSTNode("paragraph", 0, Len(src), <<InlineOf(pieces, 0)>>)>>)

SafePieces ==
    {TextPiece(<<"t">>), MentionPiece(TokenA), MentionPiece(TokenB),
     Chain(<<"underline">>, <<"x">>), Chain(<<"strong_emphasis">>, <<"x">>),
     Chain(<<"emphasis", "underline">>, <<"x">>),
     LinkPiece(<<"l">>, UrlA), LinkPiece(<<"l">>, UrlC), CodePiece(<<"c">>, TRUE)}

SafeInputs ==
    {ParagraphInput(<<p>>) : p \in SafePieces}
    \cup {ParagraphInput(<<p, q>>) : p, q \in SafePieces}
    \cup {AttachmentInput(x) : x \in {MediaA, MediaC}}
    \cup {BlockInput(PanelPiece("none", << >>, ParagraphPiece(<<p>>))) : p \in SafePieces}
    \cup {BlockInput(ListPiece(<<m>>)) : m \in ItemMarkers}
    \cup {BlockInput(HeadingPiece(<<"atx_h2_marker">>, << >>))}

\* CheckSafeForV2 is called once, on one of the inputs; the call is recorded
\* with the document it built and the error it returned
CheckSafeForV2Call ==
    /\ status = "idle"
    /\ built = << >>
    /\ \E i \in SafeInputs :
          built' = <<[input |-> i,
                      check |-> CheckSafeForV2(
                                   Builder(userMapping, mediaMapping, inlineCardMapping),
                                   i.tree, i.content)]>>
    /\ UNCHANGED <<mediaMapping, inlineCardMapping, tr, buf, stack, status, doc,
                   calls, userMapping>>

InitSafe == InitWith({NewMarkdownTranslator("none", << >>)}, {<< >>})

NextSafe ==
    TranslateShared \/ VisitOpen \/ VisitClose \/ TranslateReturn \/ CheckSafeForV2Call

SpecSafe == InitSafe /\ [][NextSafe]_vars

-----------------------------------------------------------------------------
(* The layout specification: Translate calls of the default renderer on    *)
(* documents of tables and of lists nested in one another.                 *)

\* a paragraph of one unmarked text
TextPara(s) == Para(<<NewTextNode(s)>>)

\* a header row of two cells, the second empty, and a row of two data cells
HeaderRowTable ==
    WithContent(NewTableNode,
        <<Row(<<TH(<<TextPara(<<"H", "e", "a", "d", "e", "r">>)>>), TH(<<Para(<< >>)>>)>>),
          Row(<<TD(<<Para(<< >>)>>), TD(<<TextPara(<<"v">>)>>)>>)>>)

\* a header row, and a data row that starts with a header cell
HeaderColumnTable ==
    WithContent(NewTableNode,
        <<Row(<<TH(<<TextPara(<<"H", "1">>)>>), TH(<<TextPara(<<"H", "2">>)>>)>>),
          Row(<<TH(<<TextPara(<<"k">>)>>), TD(<<TextPara(<<"v">>)>>)>>)>>)

\* a table without header cells
PlainTable ==
    WithContent(NewTableNode,
        <<Row(<<TD(<<TextPara(<<"a">>)>>), TD(<<TextPara(<<"b">>)>>)>>),
          Row(<<TD(<<TextPara(<<"c">>)>>), TD(<<TextPara(<<"d">>)>>)>>)>>)

\* a table whose data cell holds a text and an inline card
CardTable ==
    WithContent(NewTableNode,
        <<Row(<<TH(<<TextPara(<<"H">>)>>)>>),
          Row(<<TD(<<Para(<<NewTextNode(<<"t">>), Card(UrlA)>>)>>)>>)>>)

\* a table of a header row only
HeaderOnlyTable ==
    WithContent(NewTableNode, <<Row(<<TH(<<TextPara(<<"H">>)>>)>>)>>)

TableBlocks ==
    {HeaderRowTable, HeaderColumnTable, PlainTable, CardTable, HeaderOnlyTable}

ListNode(kind) == IF kind = "orderedList" THEN NewOrderedListNode(1) ELSE NewBulletListNode

RECURSIVE Nest(_)
\* lists of the given kinds inside one another, outermost first: each list
\* has two items, the first holding the next list
Nest(kinds) ==
    WithContent(ListNode(Head(kinds)),
        <<Item(<<TextPara(<<"a">>)>>
               \o (IF Tail(kinds) = << >> THEN << >> ELSE <<Nest(Tail(kinds))>>)),
          Item(<<TextPara(<<"c">>)>>)>>)

ListBlocks ==
    {Nest(kinds) : kinds \in SeqsUpTo({"bulletList", "orderedList"}, MaxDepth) \ {<< >>}}

\* one table or list, alone, after a paragraph or after another of its sort
LayoutDocs ==
    {DocNode(<<b>>) : b \in TableBlocks \cup ListBlocks}
    \cup {DocNode(<<TextPara(<<"p">>), b>>) : b \in TableBlocks \cup ListBlocks}
    \cup {DocNode(<<a, b>>) : a, b \in TableBlocks}
    \cup {DocNode(<<a, b>>) : a, b \in ListBlocks}

InitLayout == InitWith({NewMarkdownTranslator("none", << >>)}, {<< >>})

\* a Translate call; a later call is handed the tree of the call before
TranslateLayout ==
    /\ Len(calls) < MaxCalls
    /\ \E d \in (IF calls = << >> THEN LayoutDocs ELSE {calls[Len(calls)].doc}) :
          TranslateStart(d)

NextLayout == TranslateLayout \/ VisitOpen \/ VisitClose \/ TranslateReturn

SpecLayout == InitLayout /\ [][NextLayout]_vars

-----------------------------------------------------------------------------
(* Properties of the renderer.                                             *)

RECURSIVE WellFormed(_)
\* every media group of the tree has the media child visit reads
WellFormed(n) ==
    /\ ~MediaPanics(n)
    /\ \A i \in 1..Len(n.content) : WellFormed(n.content[i])

\* C1: rendering never fails: Translate of a well-formed tree, one the
\* builder produced included, with the default or the Jira dialect, does
\* not panic.
C1_RenderingNeverFails == WellFormed(doc) => status # "panicked"

RECURSIVE MapOrderFree(_)
\* no attribute map of the tree is written out in the order Go ranges it
MapOrderFree(n) ==
    /\ Cardinality(DOMAIN n.attrs) <= 1 \/ \A k \in DOMAIN n.attrs : ~IsValidAttr(k)
    /\ \A i \in 1..Len(n.content) : MapOrderFree(n.content[i])

\* C2: one render is one fresh state: two Translate calls of one renderer on
\* the same tree return the same string (for a tree whose output does not
\* depend on the order in which Go ranges over an attribute map).
C2_SameTreeSameString ==
    \A i, j \in 1..Len(calls) :
        (calls[i].doc = calls[j].doc /\ MapOrderFree(calls[i].doc))
            => calls[i].out = calls[j].out

\* open(m1)..open(mk), then the text, then close(mk)..close(m1), for every
\* order in which Go may range over the attribute maps of the marks
MarkStack(t, marks, text) ==
    {Flatten([i \in 1..Len(marks) |->
                Open(t, marks[i].type, marks[i].attrs, ords[i], ords[i]).out])
     \o text
     \o Flatten([i \in 1..Len(marks) |->
                  Close(t, marks[Len(marks) + 1 - i].type,
                        marks[Len(marks) + 1 - i].attrs).out])
        : ords \in MarkOrders(marks)}

\* the buffer cell addCellContent writes to, "" while it does not exist
CurrentCell(t) ==
    IF t.rows >= 1 /\ t.rows <= Len(t.content)
       /\ CurrentCol(t) + 1 \in 1..Len(t.content[t.rows])
    THEN t.content[t.rows][CurrentCol(t) + 1]
    ELSE << >>

\* visit is about to emit the marks and the text of a text node and does
TextStep ==
    /\ status = "running" /\ status' = "running"
    /\ Len(stack) > 1
    /\ Top.node.type = "text"
    /\ Top.idx = Len(Top.node.content)

\* what a text step emits is the mark stack around the given text: appended
\* to the current buffer cell inside a table cell, to the output otherwise
EmitsMarkStack(text) ==
    IF isInTableCell(tr)
    THEN /\ buf' = buf
         /\ \E e \in MarkStack(tr, Top.node.marks, text) :
                CurrentCell(tr') = CurrentCell(tr) \o e
    ELSE \E e \in MarkStack(tr, Top.node.marks, text) : buf' = buf \o e

-----------------------------------------------------------------------------
(* Properties of the registry.                                             *)

RECURSIVE NodesOf(_)
RECURSIVE NodesOfAll(_)
\* the nodes of a tree, and of a sequence of trees, in the order visit meets
\* them
NodesOf(n) == <<n>> \o NodesOfAll(n.content)
NodesOfAll(ns) == IF ns = << >> THEN << >> ELSE NodesOf(Head(ns)) \o NodesOfAll(Tail(ns))

\* the nodes of the trees rendered so far, in the order they were visited
Visited == Flatten([i \in 1..Len(calls) |-> NodesOf(calls[i].doc)])

\* the visited inline cards with the URL, and the visited media groups
\* whose first media child has the id
CardsOf(url) ==
    SelectSeq(Visited, LAMBDA n : n.type = "inlineCard" /\ n.attrs = Attr1("url", StrV(url)))

GroupsOf(id) ==
    SelectSeq(Visited,
              LAMBDA n : /\ n.type \in {"mediaGroup", "mediaSingle"}
                         /\ n.content # << >>
                         /\ "id" \in DOMAIN n.content[1].attrs
                         /\ n.content[1].attrs["id"] = StrV(id))

Last(s) == s[Len(s)]

\* a TranslateToADF call returns in this step
BuildStep == Len(built') = Len(built) + 1

\* what the call that returns in this step was given and what it returned
Given == Last(built').input
Returned == Last(built').doc

\* C5: inline-card identity: a build that shares the registry of a renderer
\* which visited an inline card with URL u turns an inline link to u,
\* whatever its label, into that card node itself (the one visited last when
\* several have the URL), and into nothing else.
C5_InlineCardIdentity ==
    [][\A l \in {<<"l">>, << >>}, u \in {UrlA, UrlB, UrlC} :
         (BuildStep /\ Given = ParagraphInput(<<LinkPiece(l, u)>>) /\ CardsOf(u) # << >>)
            => /\ Len(Returned.content) = 1
               /\ Returned.content[1].type = "paragraph"
               /\ Returned.content[1].content = <<Last(CardsOf(u))>>
               /\ Last(CardsOf(u)).ref > 0]_vars

\* a link with a label, to a URL two visited cards have, was built into the
\* second of the cards
C5_Witness ==
    /\ built # << >>
    /\ built[1].input = ParagraphInput(<<LinkPiece(<<"l">>, UrlA)>>)
    /\ Len(CardsOf(UrlA)) = 2
    /\ built[1].doc.content[1].content = <<CardsOf(UrlA)[2]>>

\* C6: attachment identity: a build that shares the registry of a renderer
\* which visited a media group whose first media child has id X appends, for
\* an attachment reference with path X, that group node itself (the one
\* visited last when several have the id) to the document; a reference whose
\* path no visited group has appends nothing.
C6_AttachmentIdentity ==
    [][\A x \in {MediaA, MediaB, MediaC} :
         (BuildStep /\ Given = AttachmentInput(x))
            => IF GroupsOf(x) # << >>
               THEN Returned.content = <<Last(GroupsOf(x))>> /\ Last(GroupsOf(x)).ref > 0
               ELSE Returned.content = << >>]_vars

\* after two media groups with the same id were rendered, a reference to the
\* id was built into the second of them
C6_Witness ==
    /\ built # << >>
    /\ Len(GroupsOf(MediaA)) = 2
    /\ built[1].input = AttachmentInput(MediaA)
    /\ built[1].doc.content = <<GroupsOf(MediaA)[2]>>

\* C7: registry entries are never removed: every step keeps the keys of the
\* identifier map and of the URL map, and a step in which a build returns
\* leaves both maps as they are.
C7_EntriesNeverRemoved ==
    [][/\ DOMAIN mediaMapping \subseteq DOMAIN mediaMapping'
       /\ DOMAIN inlineCardMapping \subseteq DOMAIN inlineCardMapping'
       /\ BuildStep => /\ mediaMapping' = mediaMapping
                       /\ inlineCardMapping' = inlineCardMapping]_vars

\* two renders filled the URL map with two keys and a build has returned
C7_Witness ==
    /\ DOMAIN inlineCardMapping = {UrlA, UrlB}
    /\ Len(calls) = 2
    /\ built # << >>

-----------------------------------------------------------------------------
(* Properties of the builder.                                              *)

\* the mark of an emphasis kind
MarkOfKind(kind) ==
    CASE kind = "strong_emphasis" -> Mark("strong", NoAttrs)
      [] kind = "underline" -> Mark("underline", NoAttrs)
      [] kind = "strikethrough" -> Mark("strike", NoAttrs)
      [] kind = "emphasis" -> Mark("em", NoAttrs)

\* C8: builder mark order: an emphasis node that nests emphasis nodes of
\* pairwise different kinds is built into one text node with the innermost
\* text and one mark per nesting level, the outermost first.
C8_MarkOrder ==
    \A i \in 1..Len(built) : \A k \in KindChains, t \in ChainTexts :
        built[i].input = ParagraphInput(<<Chain(k, t)>>)
            => built[i].doc.content =
                 <<Para(<<NewTextNodeWithMarks(t, [j \in 1..Len(k) |-> MarkOfKind(k[j])])>>)>>

\* a strike around a strong around an underline was built
C8_Witness ==
    /\ built # << >>
    /\ built[1].input =
         ParagraphInput(<<Chain(<<"strikethrough", "strong_emphasis", "underline">>, <<"x">>)>>)
    /\ Len(built[1].doc.content[1].content[1].marks) = 3

\* the trimmed texts of the mention tokens of a one-block input, in order
MentionTokens(input) ==
    LET block == input.tree.ch[1].ch[1]
        inline == ChildrenOfKind(block, "inline")[1]
        tokens == ChildrenOfKind(inline.inl[1], "people_mention")
    IN  [j \in 1..Len(tokens) |->
            TrimSpace(TextOf(TextOf(input.content, inline), tokens[j]))]

\* s is "@local@domain"
IsAddress(s) == Len(s) >= 2 /\ s[1] = "@" /\ \E k \in 2..Len(s) : s[k] = "@"

\* the local part of an address
LocalPart(s) ==
    LET k == CHOOSE k \in 2..Len(s) : s[k] = "@" /\ \A j \in 2..(k - 1) : s[j] # "@"
    IN  SubSeq(s, 2, k - 1)

\* C10: mention resolution: the mention tokens of a block are built into as
\* many mention nodes, in order, and for a token s = "@local@domain" the
\* node has the id userMapping[s] when s is a key of the mapping, s itself
\* otherwise, and the text "local".
C10_MentionResolution ==
    \A i \in 1..Len(built) :
        LET tokens == MentionTokens(built[i].input)
            mentions == SelectSeq(built[i].doc.content[1].content,
                                  LAMBDA n : n.type = "mention")
        IN  /\ Len(mentions) = Len(tokens)
            /\ \A j \in 1..Len(tokens) :
                  IsAddress(tokens[j])
                      => mentions[j] =
                           Node("mention", << >>, << >>, << >>,
                                Attr2("id",
                                      StrV(IF tokens[j] \in DOMAIN userMapping
                                           THEN userMapping[tokens[j]] ELSE tokens[j]),
                                      "text", StrV(LocalPart(tokens[j]))))

\* a token the mapping knows and a token it does not know were built
C10_Witness ==
    /\ userMapping # << >>
    /\ built # << >>
    /\ built[1].input = ParagraphInput(<<MentionPiece(TokenA \o <<" ">>), MentionPiece(TokenB)>>)
    /\ Len(built[1].doc.content[1].content) = 2

-----------------------------------------------------------------------------
(* Properties of the round trip.                                           *)

RECURSIVE Shape(_)
\* the node kinds of the tree, in their shape, with the literal texts
Shape(n) ==
    [type |-> n.type, text |-> n.text,
     content |-> [i \in 1..Len(n.content) |-> Shape(n.content[i])]]

\* C3: building the rendering of a built document gives a document of the same
\* node kinds in the same shape with the same literal texts as the built one:
\* the rendering of a built document returns, and the document built from what
\* it returns has the shape and the texts of the first.
C3_RoundTripIdempotent ==
    /\ Len(built) = 1 => status # "panicked"
    /\ Len(built) = 2 => Shape(built[2].doc) = Shape(built[1].doc)

\* the text of a cell: the texts of the text nodes of its paragraphs, in order
CellText(cell) ==
    Flatten([p \in 1..Len(cell.content) |->
                Flatten([k \in 1..Len(cell.content[p].content) |->
                            cell.content[p].content[k].text])])

\* every text node of the cell carries a strong mark
AllStrong(cell) ==
    \A p \in 1..Len(cell.content) :
        \A k \in 1..Len(cell.content[p].content) :
            \E m \in 1..Len(cell.content[p].content[k].marks) :
                cell.content[p].content[k].marks[m].type = "strong"

\* the document is one table of the rows and columns of t, header cells in the
\* first row and data cells in the others, with the cell texts of t and a
\* strong mark on every header text
SameTable(t, d) ==
    /\ Len(d.content) = 1
    /\ d.content[1].type = "table"
    /\ Len(d.content[1].content) = Len(t)
    /\ \A i \in 1..Len(t) :
          LET row == d.content[1].content[i]
          IN  /\ row.type = "tableRow"
              /\ Len(row.content) = Len(t[i])
              /\ \A j \in 1..Len(t[i]) :
                    /\ row.content[j].type = IF i = 1 THEN "tableHeader" ELSE "tableCell"
                    /\ CellText(row.content[j]) = t[i][j]
                    /\ i = 1 => AllStrong(row.content[j])

\* no cell of the table has an angle bracket
NoAngleBrackets(t) ==
    \A i \in 1..Len(t) : \A j \in 1..Len(t[i]) :
        ~Contains(t[i][j], <<"<">>) /\ ~Contains(t[i][j], <<">">>)

\* the round trip of the table t has been made: t was built, the document
\* rendered and the rendered text built
RoundTripOf(t) == Len(built) = 2 /\ built[1].input.content = TableText(t)

-----------------------------------------------------------------------------
(* Properties of the blocks the builder makes.                             *)

\* the one block of the tree of an input
BlockOf(input) == input.tree.ch[1].ch[1]

\* the list items of the list of an input, and the marker of one of them
ItemsOf(input) == ChildrenOfKind(BlockOf(input), "list_item")

MarkerOf(input, item) ==
    [kind |-> item.ch[1].kind,
     text |-> TrimSpace(TextOf(input.content, item.ch[1]))]

\* C11: ordered-list starting number: a list whose first item has a dot
\* marker announcing the number n is built into one ordered-list node whose
\* attributes hold order = n when n > 1 and hold no key when n = 1 (or less)
\* or when the marker announces no number.
C11_StartingNumber ==
    \A i \in 1..Len(built) : \A m \in DotMarkers :
        (/\ BlockOf(built[i].input).kind = "list"
         /\ MarkerOf(built[i].input, ItemsOf(built[i].input)[1])
              = [kind |-> "list_marker_dot", text |-> m.text])
        => /\ Len(built[i].doc.content) = 1
           /\ built[i].doc.content[1].type = "orderedList"
           /\ built[i].doc.content[1].attrs =
                IF m.parsed /\ m.num > 1 THEN Attr1("order", IntV(m.num)) ELSE NoAttrs

\* a list that starts at 5 and continues with another marker was built with
\* order 5
C11_Witness ==
    /\ built # << >>
    /\ BlockOf(built[1].input).kind = "list"
    /\ Len(ItemsOf(built[1].input)) = 2
    /\ MarkerOf(built[1].input, ItemsOf(built[1].input)[1])
         = [kind |-> "list_marker_dot", text |-> <<"5", ".">>]
    /\ built[1].doc.content[1].attrs = Attr1("order", IntV(5))

\* the text of a built list item: that of the text nodes of its first paragraph
BuiltItemText(item) ==
    Flatten([k \in 1..Len(item.content[1].content) |-> item.content[1].content[k].text])

IsBoldForm(t) ==
    /\ Len(t) >= 5
    /\ SubSeq(t, 1, 2) = <<"*", "*">>
    /\ SubSeq(t, Len(t) - 1, Len(t)) = <<"*", "*">>

\* the x of a text of the form **x**
BoldInner(t) == Slice(t, 2, Len(t) - 2)

\* the cell node is the one paragraph of the trimmed cell text t
CellHolds(cell, t, isHeader) ==
    /\ cell.type = (IF isHeader THEN "tableHeader" ELSE "tableCell")
    /\ Len(cell.content) = 1
    /\ cell.content[1].type = "paragraph"
    /\ IF t = << >> THEN cell.content[1].content = << >>
       ELSE /\ Len(cell.content[1].content) = 1
            /\ LET n == cell.content[1].content[1]
               IN  /\ n.type = "text"
                   /\ isHeader => n.marks = <<NewStrongMark>>
                   /\ ~isHeader => /\ n.marks = (IF IsBoldForm(t) THEN <<NewStrongMark>>
                                                 ELSE << >>)
                                   /\ IsBoldForm(t) => n.text = BoldInner(t)

\* C13: table building: a pipe table is built into one row node per header
\* or data row, the delimiter rows left out, header rows made of header
\* cells and data rows of data cells; every cell holds exactly one
\* paragraph, with no text node when the trimmed cell text is empty and one
\* text node otherwise; a header text node carries exactly one strong mark,
\* a data text node carries a strong mark exactly when the trimmed cell text
\* has the form **x**, and its text is then x.
C13_TableBuilding ==
    \A i \in 1..Len(built) :
        BlockOf(built[i].input).kind = "pipe_table"
        => LET rows == SelectSeq(BlockOf(built[i].input).ch,
                           LAMBDA c : c.kind # "pipe_table_delimiter_row")
               table == built[i].doc.content[1]
           IN  /\ Len(built[i].doc.content) = 1
               /\ table.type = "table"
               /\ Len(table.content) = Len(rows)
               /\ \A r \in 1..Len(rows) :
                     /\ table.content[r].type = "tableRow"
                     /\ Len(table.content[r].content) = Len(rows[r].ch)
                     /\ \A j \in 1..Len(rows[r].ch) :
                           CellHolds(table.content[r].content[j],
                                     TrimSpace(TextOf(built[i].input.content, rows[r].ch[j])),
                                     rows[r].kind = "pipe_table_header")

\* a table was built whose data row holds an empty cell and a cell of the
\* form **x**, the second built into the text x with a strong mark
C13_Witness ==
    /\ built # << >>
    /\ BlockOf(built[1].input).kind = "pipe_table"
    /\ Len(built[1].doc.content[1].content) = 2
    /\ Len(built[1].doc.content[1].content[2].content) = 2
    /\ built[1].doc.content[1].content[2].content[1].type = "tableCell"
    /\ built[1].doc.content[1].content[2].content[1].content[1].content = << >>
    /\ built[1].doc.content[1].content[2].content[2].content[1].content
         = <<NewTextNodeWithMarks(<<"x">>, <<NewStrongMark>>)>>

\* the nodes of a built document, and its text nodes with a mark of the type
BuiltNodes(d) == NodesOfAll(d.content)

MarkedNodes(d, type) ==
    SelectSeq(BuiltNodes(d),
              LAMBDA n : n.type = "text" /\ \E k \in 1..Len(n.marks) : n.marks[k].type = type)

\* the inline nodes of the kind in the one paragraph of an input
InlinesOf(input, kind) == ChildrenOfKind(BlockOf(input).ch[1].inl[1], kind)

\* what a code span encloses, and the label and the destination of a link
CodeOf(input, span) == TrimChar(TextOf(input.content, span), "BT")

LabelOf(input, link) == Slice(TextOf(input.content, link.ch[1]), 1, link.ch[1].e - link.ch[1].s - 1)

DestinationOf(input, link) ==
    Slice(TextOf(input.content, link.ch[2]), 1, link.ch[2].e - link.ch[2].s - 1)

\* C15: empty constructs are elided: in a built document no text node with
\* a code mark or a link mark has an empty text and no link mark has an empty
\* href; a code span that encloses nothing makes no node, and a link whose
\* label or destination is empty makes no link mark.
C15_EmptyElided ==
    \A i \in 1..Len(built) :
        LET d == built[i].doc
            codes == MarkedNodes(d, "code")
            links == MarkedNodes(d, "link")
        IN  /\ \A k \in 1..Len(codes) : codes[k].text # << >>
            /\ \A k \in 1..Len(links) :
                  /\ links[k].text # << >>
                  /\ \A m \in 1..Len(links[k].marks) :
                        links[k].marks[m].type = "link"
                        => links[k].marks[m].attrs["href"] # StrV(<< >>)
            /\ BlockOf(built[i].input).kind = "paragraph"
               => /\ Len(codes) = Len(SelectSeq(InlinesOf(built[i].input, "code_span"),
                                        LAMBDA c : CodeOf(built[i].input, c) # << >>))
                  /\ Len(links) = Len(SelectSeq(InlinesOf(built[i].input, "inline_link"),
                                        LAMBDA l : /\ LabelOf(built[i].input, l) # << >>
                                                   /\ DestinationOf(built[i].input, l) # << >>))
                  /\ Len(BuiltNodes(d)) = 1 + Len(codes) + Len(links)
                                            + Len(InlinesOf(built[i].input, "text"))

\* a paragraph of an empty code span and a link without a destination was
\* built into a paragraph without nodes
C15_Witness ==
    /\ built # << >>
    /\ BlockOf(built[1].input).kind = "paragraph"
    /\ Len(InlinesOf(built[1].input, "code_span")) = 1
    /\ Len(InlinesOf(built[1].input, "inline_link")) = 1
    /\ DestinationOf(built[1].input, InlinesOf(built[1].input, "inline_link")[1]) = << >>
    /\ LabelOf(built[1].input, InlinesOf(built[1].input, "inline_link")[1]) # << >>
    /\ built[1].doc.content = <<NewParagraphNode>>

\* the heading markers of a heading of an input, in order
MarkersOf(node) == SelectSeq(node.ch, LAMBDA c : c.kind \in HeadingMarkers)

\* the "type" nodes of the start of a panel
TypesOf(node) ==
    Flatten([a \in 1..Len(ChildrenOfKind(node, "panel_start")) |->
               Flatten([b \in 1..Len(ChildrenOfKind(ChildrenOfKind(node, "panel_start")[a],
                                                    "panel_type")) |->
                          ChildrenOfKind(
                              ChildrenOfKind(ChildrenOfKind(node, "panel_start")[a],
                                             "panel_type")[b], "type")])])

\* C19: builder defaults instead of failures: for every tree the parser
\* returns the builder returns a document; a heading without a level marker
\* gets level 1 and every built heading has a level in 1..6, an ordered
\* marker whose number cannot be parsed gives the starting order 1, and a
\* panel without a type marker gets the panel type "info".
C19_Defaults ==
    \A i \in 1..Len(built) :
        LET block == BlockOf(built[i].input)
            d == built[i].doc
            nodes == BuiltNodes(d)
        IN  /\ d.type = "doc" /\ d.version = 1
            /\ Len(d.content) = 1
            /\ \A k \in 1..Len(nodes) :
                  nodes[k].type = "heading"
                  => /\ DOMAIN nodes[k].attrs = {"level"}
                     /\ nodes[k].attrs["level"] \in {IntV(l) : l \in 1..6}
            /\ (block.kind = "atx_heading" /\ MarkersOf(block) = << >>)
               => d.content[1].attrs = Attr1("level", IntV(1))
            /\ \A m \in DotMarkers :
                  (/\ block.kind = "list"
                   /\ MarkerOf(built[i].input, ItemsOf(built[i].input)[1])
                        = [kind |-> "list_marker_dot", text |-> m.text]
                   /\ ~m.parsed)
                  => /\ extractOrderFromListItem(ItemsOf(built[i].input)[1],
                                                 built[i].input.content) = 1
                     /\ d.content[1] = [NewOrderedListNode(1) EXCEPT
                                           !.content = d.content[1].content]
            /\ (block.kind = "panel" /\ TypesOf(block) = << >>)
               => /\ d.content[1].type = "panel"
                  /\ d.content[1].attrs = Attr1("panelType", StrV(<<"i", "n", "f", "o">>))

\* a panel whose start names no type was built with the panel type "info"
C19_Witness ==
    /\ built # << >>
    /\ BlockOf(built[1].input).kind = "panel"
    /\ ChildrenOfKind(BlockOf(built[1].input), "panel_start") # << >>
    /\ TypesOf(BlockOf(built[1].input)) = << >>
    /\ built[1].doc.content[1].attrs = Attr1("panelType", StrV(<<"i", "n", "f", "o">>))
    /\ built[1].doc.content[1].content # << >>

-----------------------------------------------------------------------------
(* Properties of the renderer's tables and paragraphs.                     *)

\* visit is about to close a table and does
TableClose ==
    /\ status = "running" /\ status' = "running"
    /\ Len(stack) > 1
    /\ Top.node.type = "table"
    /\ Top.idx = Len(Top.node.content)

\* the greatest number of characters of a buffered cell of column j
RECURSIVE LongestCell(_, _)
LongestCell(content, j) ==
    IF content = << >> THEN 0
    ELSE LET rest == LongestCell(Tail(content), j)
         IN  IF j <= Len(Head(content)) THEN Max(Len(Head(content)[j]), rest) ELSE rest

\* the cell left-aligned in w characters
LeftAligned(cell, w) == cell \o [k \in 1..(w - Len(cell)) |-> " "]

\* the rows of the buffered table laid out with column j as wide as
\* max(5, the longest cell of column j), the dashes after the first row
LaidOut(content) ==
    Flatten([i \in 1..Len(content) |->
        <<"|">>
        \o Flatten([j \in 1..Len(content[i]) |->
              <<" ">> \o LeftAligned(content[i][j], Max(5, LongestCell(content, j)))
              \o <<" ", "|">>])
        \o <<"\n">>
        \o (IF i = 1
            THEN <<"|">>
                 \o Flatten([j \in 1..Len(content[i]) |->
                       [k \in 1..(Max(5, LongestCell(content, j)) + 2) |-> "-"] \o <<"|">>])
                 \o <<"\n">>
            ELSE << >>)])

\* C14: table column widths: a table is rendered with column j as wide as
\* max(5, the greatest length of a buffered cell of column j over all rows),
\* the cell of every row in column j left-aligned and padded with spaces to
\* exactly that width; a column whose longest cell has four characters is
\* rendered at width 5.
C14_ColumnWidths == [][TableClose => buf' = buf \o LaidOut(tr.content)]_vars

\* visit is about to close a paragraph and does
ParagraphClose ==
    /\ status = "running" /\ status' = "running"
    /\ Len(stack) > 1
    /\ Top.node.type = "paragraph"
    /\ Top.idx = Len(Top.node.content)

\* a node of one of the types is being visited: it encloses the node on top
Inside(types) == \E k \in 1..(Len(stack) - 1) : stack[k].node.type \in types

\* C20: paragraph close: at any point of a traversal, closing a paragraph
\* emits exactly one newline when the paragraph is inside a bullet or an
\* ordered list that is open, otherwise exactly two newlines when it is not
\* inside a table, and nothing otherwise; the lists and tables closed earlier
\* in the render do not count.
C20_ParagraphClose ==
    [][ParagraphClose =>
         buf' = buf \o (IF Inside({"bulletList", "orderedList"}) THEN <<"\n">>
                        ELSE IF ~Inside({"table"}) THEN <<"\n", "\n">>
                        ELSE << >>)]_vars

\* a render of a list and then a paragraph has closed the paragraph of the
\* list with one newline and the one after the list with two
C20_Witness ==
    /\ calls # << >>
    /\ Len(calls[1].doc.content) = 2
    /\ calls[1].doc.content[1].type = "bulletList"
    /\ calls[1].doc.content[2].type = "table"
    /\ HasPrefix(calls[1].out, <<"-", " ", "a", "\n">>)

-----------------------------------------------------------------------------
(* Properties of the document model.                                       *)

RECURSIVE Substituted(_, _, _, _, _)
\* after is before with the texts of its text nodes, the root's own left
\* out, rewritten and nothing else changed
Substituted(before, after, old, new, isRoot) ==
    /\ after.type = before.type
    /\ after.marks = before.marks
    /\ after.attrs = before.attrs
    /\ after.ref = before.ref
    /\ after.text = (IF ~isRoot /\ before.type = "text"
                     THEN ReplaceAllString(before.text, old, new) ELSE before.text)
    /\ Len(after.content) = Len(before.content)
    /\ \A k \in 1..Len(before.content) :
          Substituted(before.content[k], after.content[k], old, new, FALSE)

\* C17: global text substitution: after ReplaceAll(old, new) on a root node
\* the text of every text node under it is its text before with every
\* occurrence of old replaced by new, and the node types, the children and
\* their order, the marks, the attributes and the texts of the other nodes
\* are as before.
C17_ReplaceAll ==
    \A i \in 1..Len(calls) :
        Substituted(calls[i].doc, calls[i].out, calls[i].old, calls[i].new, TRUE)

\* "a" was replaced by "ab" under the root of mixed nodes: the text "aaa"
\* became "ababab", the text nodes at both depths were rewritten, the texts
\* of the root and of the emoji were not
C17_Witness ==
    /\ calls # << >>
    /\ calls[1].doc = MixedRoot
    /\ calls[1].old = <<"a">> /\ calls[1].new = <<"a", "b">>
    /\ calls[1].out.text = <<"a">>
    /\ calls[1].out.content[1].text = <<"a", "b", "a", "b", "a", "b">>
    /\ calls[1].out.content[2].text = <<"a">>
    /\ calls[1].out.content[3].text = <<"a", "b", "b">>
    /\ calls[1].out.content[3].content[1].text = <<"b", "a", "b">>
    /\ calls[1].out.content[3].marks = <<NewLinkMark(<<"a">>), NewStrongMark>>

\* C18: kind classification: GetADFNodeType depends on the node type alone
\* and gives parent, child or unknown, no type being both parent and child;
\* it gives parent for blockquote, bullet list, ordered list, code block,
\* heading, panel, table and media group, and child for text, list item,
\* table row, table header and table cell.
C18_Classification ==
    \A i \in 1..Len(calls) :
        /\ calls[i].out \in {"parent", "child", "unknown"}
        /\ ~(IsParentNode(calls[i].kind) /\ IsChildNode(calls[i].kind))
        /\ \A j \in 1..Len(calls) : calls[j].kind = calls[i].kind => calls[j].out = calls[i].out
        /\ calls[i].kind \in {"blockquote", "bulletList", "orderedList", "codeBlock",
                              "heading", "panel", "table", "mediaGroup"}
           => calls[i].out = "parent"
        /\ calls[i].kind \in {"text", "listItem", "tableRow", "tableHeader", "tableCell"}
           => calls[i].out = "child"

-----------------------------------------------------------------------------
(* Properties of the compatibility check.                                  *)

\* the types of the nodes and of the marks of a built document
TypesIn(d) ==
    {BuiltNodes(d)[k].type : k \in 1..Len(BuiltNodes(d))}
    \cup UNION {{BuiltNodes(d)[k].marks[m].type : m \in 1..Len(BuiltNodes(d)[k].marks)} :
                  k \in 1..Len(BuiltNodes(d))}

UnsafeKinds ==
    {"panel", "media", "mediaGroup", "mediaSingle", "inlineCard", "emoji", "mention",
     "hardBreak", "underline"}

\* C16: compatibility check: CheckSafeForV2 returns an error exactly when
\* the built tree holds a node or a mark of an unsafe kind (panel, media,
\* media group, media single, inline card, emoji, mention, hard break,
\* underline); the error lists every unsafe kind found exactly once,
\* however often it occurs, and no kind that does not occur.
C16_CheckSafe ==
    \A i \in 1..Len(built) :
        LET unsafe == TypesIn(built[i].check.doc) \cap UnsafeKinds
            err == built[i].check.err
        IN  /\ ~err.nil <=> unsafe # {}
            /\ {err.types[k] : k \in 1..Len(err.types)} = unsafe
            /\ \A k, m \in 1..Len(err.types) : err.types[k] = err.types[m] => k = m
            /\ err.nil => err.types = << >>

\* a paragraph of two mentions was checked, after a render had registered a
\* card; the error lists mention once
C16_Witness ==
    /\ built # << >>
    /\ inlineCardMapping # << >>
    /\ Len(SelectSeq(BuiltNodes(built[1].check.doc), LAMBDA n : n.type = "mention")) = 2
    /\ built[1].check.err = [nil |-> FALSE, types |-> <<"mention">>]

-----------------------------------------------------------------------------
(* Properties of the renderer's table and list state.                      *)

\* the table fields of a MarkdownTranslator
TableState(t) ==
    [rows |-> t.rows, cols |-> t.cols, ccol |-> t.ccol, sep |-> t.sep,
     content |-> t.content, widths |-> t.widths,
     inTable |-> t.inTable, inTableCell |-> t.inTableCell]

\* C21: the step that closes a table node leaves every table field of the
\* translator (the row counter, the header and the data column counters,
\* the separator flag, the cell buffer, the column widths, the in-table and
\* the in-cell flags) at the value NewMarkdownTranslator gives it
C21_TableCloseResets ==
    [][TableClose =>
         TableState(tr') = TableState(NewMarkdownTranslator(tr.hooks, tr.resolver))]_vars

RECURSIVE LinesOf(_)
\* the lines of a text, each without the newline that ends it
LinesOf(s) ==
    IF s = << >> THEN << >>
    ELSE IF IndexOf(s, "\n") < 0 THEN <<s>>
    ELSE <<Slice(s, 0, IndexOf(s, "\n"))>> \o LinesOf(Slice(s, IndexOf(s, "\n") + 1, Len(s)))

\* what the step appends to the main output
Appended == SubSeq(buf', Len(buf) + 1, Len(buf'))

RECURSIVE TextsOf(_)
RECURSIVE TextsOfAll(_)
\* the texts of the text nodes of a tree, in document order
TextsOf(n) == (IF n.type = "text" THEN <<n.text>> ELSE << >>) \o TextsOfAll(n.content)
TextsOfAll(ns) == IF ns = << >> THEN << >> ELSE TextsOf(Head(ns)) \o TextsOfAll(Tail(ns))

\* a line of pipes and dashes
IsSeparatorLine(line) ==
    /\ \A k \in 1..Len(line) : line[k] \in {"|", "-"}
    /\ \E k \in 1..Len(line) : line[k] = "-"

\* a line between two pipes
IsPipeLine(line) == Len(line) >= 1 /\ line[1] = "|" /\ line[Len(line)] = "|"

\* the line of dashes under a row of n cells of the buffered table: column j
\* gets the width of the column, max(5, its longest cell), plus 2 dashes
DashLine(content, n) ==
    <<"|">> \o Flatten([j \in 1..n |->
                 [k \in 1..(Max(5, LongestCell(content, j)) + 2) |-> "-"] \o <<"|">>])

\* the table on top of the visit has rows, the first one a row of header cells
HasHeaderRow ==
    /\ Top.node.content # << >>
    /\ Top.node.content[1].content # << >>
    /\ \A j \in 1..Len(Top.node.content[1].content) :
          Top.node.content[1].content[j].type = "tableHeader"

\* the line of the rendered table that row i is written to
RowLine(i) == IF i = 1 THEN 1 ELSE i + 1

InTableStep ==
    /\ status = "running" /\ status' = "running"
    /\ \/ Inside({"table"})
       \/ Top.node.type = "table" /\ Top.idx < Len(Top.node.content)

\* C23: cell content is diverted: from a table's opening newline until that
\* table closes, no step appends anything to the main output
C23_CellContentDiverted == [][InTableStep => buf' = buf]_vars

\* what a cell holding paragraphs of unmarked texts is rendered as
PlainCell(cell) == Flatten(TextsOf(cell))

\* C27: table cell placement: when a table closes, row i of the cell buffer
\* holds exactly one string per cell child of the i-th row node, and the
\* string at column j is the rendered content of the j-th cell of that row,
\* for header cells and data cells in any row, empty cells included
C27_CellPlacement ==
    [][TableClose =>
         /\ Len(tr.content) = Len(Top.node.content)
         /\ \A i \in 1..Len(tr.content) :
               /\ Len(tr.content[i]) = Len(Top.node.content[i].content)
               /\ \A j \in 1..Len(tr.content[i]) :
                     j <= Len(Top.node.content[i].content)
                     => tr.content[i][j] = PlainCell(Top.node.content[i].content[j])]_vars

\* a node of one of the types is being visited
Visiting(types) == \E k \in 1..Len(stack) : stack[k].node.type \in types

\* C30: the in-cell flag is true exactly while the traversal is inside a
\* table header or a table cell node
C30_InCellFlag ==
    status = "running" => (tr.inTableCell <=> Visiting({"tableHeader", "tableCell"}))

\* visit is about to open an item of the list on top and does
ItemOpen ==
    /\ status = "running" /\ status' = "running"
    /\ Top.node.type \in {"bulletList", "orderedList"}
    /\ Top.idx < Len(Top.node.content)
    /\ NextChild.type = "listItem"

\* a number, a dot and a space
IsOrderedMarker(s) ==
    /\ Len(s) >= 3
    /\ SubSeq(s, Len(s) - 1, Len(s)) = <<".", " ">>
    /\ \A k \in 1..(Len(s) - 2) : IsDigit(s[k])

\* C25: a list item is rendered with the marker of its innermost enclosing
\* list, the list node the item is a child of: after the indentation "N. "
\* when that list is an ordered list and "- " when it is a bullet list
C25_ItemMarker ==
    [][ItemOpen =>
         /\ buf' = buf \o Appended
         /\ IF Top.node.type = "orderedList"
            THEN IsOrderedMarker(TrimLeftSpace(Appended))
            ELSE TrimLeftSpace(Appended) = <<"-", " ">>]_vars

\* C26: within one render the items of every ordered list are numbered 1, 2,
\* 3, ... in order: the k-th item of an ordered list is rendered with "k. "
C26_ItemNumbers ==
    [][(ItemOpen /\ Top.node.type = "orderedList") =>
         /\ buf' = buf \o Appended
         /\ TrimLeftSpace(Appended) = Itoa(Top.idx + 1) \o <<".", " ">>]_vars

\* the number of nodes of the type that are being visited
OpenLists(type) == Cardinality({k \in 1..Len(stack) : stack[k].node.type = type})

\* C29: list depth is balanced: at every point of a traversal the ordered
\* and the bullet depth counters equal the number of lists of that kind that
\* are open (being visited) and are never negative, the depths marked active
\* are those of the open lists, and when Translate has returned both counters
\* are 0 and no depth is marked active
C29_ListDepth ==
    /\ status = "running" =>
          /\ tr.depthO = OpenLists("orderedList") /\ tr.depthO >= 0
          /\ tr.depthU = OpenLists("bulletList") /\ tr.depthU >= 0
          /\ tr.ol = 1..tr.depthO
          /\ tr.ul = 1..tr.depthU
    /\ status = "idle" =>
          /\ tr.depthO = 0 /\ tr.depthU = 0
          /\ tr.ol = {} /\ tr.ul = {}

\* a render of nested lists has returned, and a second render of the same
\* renderer is inside an ordered list that is inside a bullet list
C29_Witness ==
    /\ status = "running"
    /\ calls # << >>
    /\ Len(stack) >= 4
    /\ stack[2].node.type = "bulletList"
    /\ stack[4].node.type = "orderedList"
    /\ tr.depthO = 1 /\ tr.depthU = 1

-----------------------------------------------------------------------------
(* Properties of the renderer's attribute maps.                            *)

\* C28: rendering does not depend on the iteration order of an attribute
\* map: for the node visit is about to open, Open returns the same string
\* for every order in which the keys of the node's attributes are ranged
C28_MapOrderIndependence ==
    (status = "running" /\ Top.idx < Len(Top.node.content)) =>
        \A o1, o2, p1, p2 \in Perms(DOMAIN NextChild.attrs) :
            Open(tr, NextChild.type, NextChild.attrs, o1, o2).out
                = Open(tr, NextChild.type, NextChild.attrs, p1, p2).out

-----------------------------------------------------------------------------
(* Properties of the builder's gap filling.                                *)

\* the block of a one-block input, its inline node, the inline content and
\* the children of the inline root
BlockNode(input) == input.tree.ch[1].ch[1]
InlinePart(input) ==
    LET inlines == ChildrenOfKind(BlockNode(input), "inline")
    IN  inlines[Len(inlines)]
InlineContent(input) == TextOf(input.content, InlinePart(input))
InlineRootChildren(input) == InlinePart(input).inl[1].ch

\* the nodes made of one child of the inline root: what is assembled from an
\* inline tree that holds this child alone, over the child's bytes alone
ChildAlone(p, child, inlineContent) ==
    processInlineTreeWithGaps(
        p, CSTNode("inline", 0, child.e - child.s, <<Shift(child, 0 - child.s)>>),
        TextOf(inlineContent, child), NewParagraphNode).content

RECURSIVE Assembled(_, _, _, _, _)
\* the nodes of the children from the cursor on, with one literal text node
\* for each non-empty range between the cursor and the next child and one
\* for the non-empty range after the last child (when blank holds also for
\* a range of white space only)
Assembled(p, ch, inlineContent, cursor, blank) ==
    IF ch = << >>
    THEN IF cursor < Len(inlineContent)
            /\ (blank \/ TrimSpace(Slice(inlineContent, cursor, Len(inlineContent))) # << >>)
         THEN <<NewTextNode(Slice(inlineContent, cursor, Len(inlineContent)))>>
         ELSE << >>
    ELSE (IF Head(ch).s > cursor
          THEN <<NewTextNode(Slice(inlineContent, cursor, Head(ch).s))>>
          ELSE << >>)
         \o ChildAlone(p, Head(ch), inlineContent)
         \o Assembled(p, Tail(ch), inlineContent, Head(ch).e, blank)

\* the inline content of the block built of the input is assembled that way
GapsFilled(b, blank) ==
    b.doc.content[1].content
        = Assembled(Builder(userMapping, mediaMapping, inlineCardMapping),
                    InlineRootChildren(b.input), InlineContent(b.input), 0, blank)

\* C24 as stated: every non-empty range between the cursor and the next
\* child's start, and in the same way every non-empty range of trailing bytes
\* after the last child, is emitted as exactly one literal text node holding
\* exactly those bytes, the emitted nodes following document order
C24_GapFilling == \A i \in 1..Len(built) : GapsFilled(built[i], TRUE)

\* C24: gap filling: every non-empty range between the cursor and the next
\* child's start (a range of white space included) is emitted as exactly one
\* literal text node holding exactly those bytes, and so is the range of
\* trailing bytes after the last child unless it is white space only, which
\* is dropped; the emitted nodes follow document order
C24_GapFillingTrimmed == \A i \in 1..Len(built) : GapsFilled(built[i], FALSE)

\* ", `c` @b@e." was built: a gap before the first child, a gap of one space
\* between two children and trailing bytes after the last
C24_Witness ==
    /\ built # << >>
    /\ built[1].input = ParagraphInput(GapPieces(<<Gap(<<".">>)>>))
    /\ Len(built[1].doc.content[1].content) = 5
    /\ built[1].doc.content[1].content[3] = NewTextNode(<<" ">>)
    /\ built[1].doc.content[1].content[5] = NewTextNode(<<".">>)

=============================================================================
